---- MODULE Spec2Model ----
(***************************************************************************)
(* The export-reconciliation pipeline of the LabBook ExpLog plugin:        *)
(* exportExpLogData (the completeness/validity gate), ExportWizardModal    *)
(* (validation, the NewSite steps, the Finish batch upsert, onClose) and   *)
(* the relational tables Sites / Experiments / Stacks they read and write. *)
(* Every await of the source is a scheduling point: an asynchronous        *)
(* handler is modelled as a task whose position advances one storage call  *)
(* at a time, and user events (Next, Finish, Cancel, Esc) interleave.      *)
(***************************************************************************)
EXTENDS Integers, Sequences, FiniteSets, TLC

(***************************************************************************)
(* Bounds of the model.                                                    *)
(***************************************************************************)
MaxID == 2        \* entity ids are 1..MaxID
MaxRows == 2      \* rows of the ExpLog table
MaxDBRows == 3    \* rows the store holds before the first export
MaxFaults == 1    \* storage calls that throw (connection errors), per behaviour
MaxHandlers == 1  \* button handlers suspended at a storage call at the same time (Spec)
MaxRuns == 2      \* invocations of the export command
MaxLines == 2     \* lines of the document after the separator row

IDs == 1..MaxID
\* Handler slots: the specification of overlapping handlers uses one more.
MaxTasks == MaxHandlers + 1

(***************************************************************************)
(* Values.                                                                 *)
(***************************************************************************)
NullNum == 0 - 1                 \* null / NaN of a number field
NullDate == <<>>                 \* null of logDateTime
AnimalID == "M001"               \* frontmatter AnimalID of the document
OtherAnimal == "M002"
Animals == {AnimalID, OtherAnimal}

DigitChars == <<"0", "1", "2", "3", "4", "5", "6", "7", "8", "9">>
IsDigit(c) == \E i \in 1..10 : DigitChars[i] = c
DigitVal(c) == (CHOOSE i \in 1..10 : DigitChars[i] = c) - 1
Cell(n) == <<DigitChars[n + 1]>>       \* the cell text of a one-digit number

\* JavaScript truthiness of a number field (null, NaN and 0 are falsy).
TruthyNum(n) == n # NullNum /\ n # 0
\* JavaScript truthiness of a string ("" is falsy); cell texts are sequences
\* of characters, date/time/comment texts are strings.
TruthyCell(s) == s # <<>>
TruthyStr(s) == s # ""

\* parseInt(s, 10): the value of the longest prefix of decimal digits, NaN
\* when the text does not start with a digit.
RECURSIVE DigitPrefixVal(_, _)
DigitPrefixVal(s, acc) ==
    IF s = <<>> \/ ~IsDigit(Head(s)) THEN acc
    ELSE DigitPrefixVal(Tail(s), acc * 10 + DigitVal(Head(s)))
parseInt(s) ==
    IF s = <<>> \/ ~IsDigit(Head(s)) THEN NullNum ELSE DigitPrefixVal(s, 0)

\* moment(dateInput, "YYYY-MM-DD HH:mm", true): strict parsing accepts exactly
\* the texts of the configured format.
ValidDates == {"2024-05-01"}
ValidTimes == {"10:00"}
momentStrict(d, t) ==
    IF d \in ValidDates /\ t \in ValidTimes THEN <<d, t>> ELSE NullDate

(***************************************************************************)
(* ExportData (export-data.ts) and extractExpLogData.                      *)
(***************************************************************************)
isEmpty(r) ==
    /\ r.logDateTime = NullDate
    /\ ~TruthyNum(r.stackID)
    /\ ~TruthyNum(r.expID)
    /\ ~TruthyNum(r.siteID)
    /\ ~TruthyStr(r.comment)

isComplete(r) ==
    /\ r.logDateTime # NullDate
    /\ TruthyNum(r.stackID)
    /\ TruthyNum(r.expID)
    /\ TruthyNum(r.siteID)

isInvalid(r) ==
    \/ (TruthyStr(r.origStringLogDate) /\ r.logDateTime = NullDate)
    \/ (TruthyStr(r.origStringLogTime) /\ r.logDateTime = NullDate)
    \/ (TruthyCell(r.origStringStackID) /\ ~TruthyNum(r.stackID))
    \/ (TruthyCell(r.origStringExpID) /\ ~TruthyNum(r.expID))
    \/ (TruthyCell(r.origStringSiteID) /\ ~TruthyNum(r.siteID))

\* One ExportData from one table row (the body of tableData.forEach).
ParseRow(row, position) ==
    [position |-> position,
     origStringLogDate |-> row.Date,
     origStringLogTime |-> row.Time,
     origStringStackID |-> row.StackID,
     origStringExpID |-> row.ExpID,
     origStringSiteID |-> row.SiteID,
     logDateTime |-> IF TruthyStr(row.Date) /\ TruthyStr(row.Time)
                     THEN momentStrict(row.Date, row.Time) ELSE NullDate,
     stackID |-> IF TruthyCell(row.StackID) THEN parseInt(row.StackID) ELSE NullNum,
     expID |-> IF TruthyCell(row.ExpID) THEN parseInt(row.ExpID) ELSE NullNum,
     siteID |-> IF TruthyCell(row.SiteID) THEN parseInt(row.SiteID) ELSE NullNum,
     paradigm |-> row.Paradigm,
     comment |-> row.Comment]

extractExpLogData(rows) ==
    LET parsed == [i \in 1..Len(rows) |-> ParseRow(rows[i], i)]
        NotEmpty(r) == ~isEmpty(r)
    IN SelectSeq(parsed, NotEmpty)

\* The positions of the records of a batch, in batch order.
Positions(batch) == [i \in 1..Len(batch) |-> batch[i].position]

(***************************************************************************)
(* The table rows the user may have typed.                                 *)
(***************************************************************************)
RawRow(d, t, s, e, si, c) ==
    [Date |-> d, Time |-> t, StackID |-> s, ExpID |-> e, SiteID |-> si,
     Paradigm |-> "", Comment |-> c]

GoodRows ==
    {RawRow("2024-05-01", "10:00", Cell(s), Cell(e), Cell(si), "c") :
        s \in IDs, e \in IDs, si \in IDs}

DefectRows ==
    {RawRow("", "", <<>>, <<>>, <<>>, ""),                      \* blank row
     RawRow("", "", <<>>, <<>>, <<>>, "c"),                     \* a comment only
     RawRow("", "", <<"x">>, <<>>, <<>>, ""),                   \* unparsable id only
     RawRow("junk", "10:00", Cell(1), Cell(1), Cell(1), "c"),   \* unparsable date
     RawRow("2024-05-01", "", Cell(1), Cell(1), Cell(1), "c"),  \* time missing
     RawRow("", "", Cell(1), Cell(1), Cell(1), "c"),            \* date and time missing
     RawRow("2024-05-01", "10:00", <<>>, Cell(1), Cell(1), "c"),    \* StackID missing
     RawRow("2024-05-01", "10:00", Cell(1), Cell(0), Cell(1), "c"), \* ExpID 0
     RawRow("2024-05-01", "10:00", Cell(1), Cell(1), <<"x">>, "c"), \* SiteID unparsable
     RawRow("2024-05-01", "10:00", <<"1", "x">>, Cell(1), Cell(1), "c")} \* "1x" parses as 1

TableRows == GoodRows \cup DefectRows
Tables == UNION {[1..n -> TableRows] : n \in 1..MaxRows}

(***************************************************************************)
(* The document text and extractTableData.  The text is the sequence of    *)
(* its lines and a line is the sequence of its tokens, the pipe character  *)
(* or a word; the white space around a token, which \s* and trim() skip,   *)
(* is not represented, and a cell holds at most one word.                  *)
(***************************************************************************)
Pipe == "|"
getExpLogTableHeadersV2 ==
    <<"Date", "Time", "StackID", "ExpID", "SiteID", "Paradigm", "Comment">>

\* `| ${cells.join(" | ")} |`
RECURSIVE PipeLine(_)
PipeLine(cells) ==
    IF cells = <<>> THEN <<Pipe>>
    ELSE <<Pipe>> \o (IF Head(cells) = "" THEN <<>> ELSE <<Head(cells)>>)
                  \o PipeLine(Tail(cells))

\* ^\|\s*p1\s*\|\s*p2 ... pn\s*(\|.*)?\|\s*$ on one line, where columns[i] is
\* the set of the words the pattern p_i matches: the first n cells match, and
\* what follows them starts and ends with a pipe (further columns are allowed).
MatchesColumns(line, columns) ==
    /\ Len(line) >= 2 * Len(columns) + 1
    /\ \A i \in 1..Len(columns) : line[2 * i - 1] = Pipe /\ line[2 * i] \in columns[i]
    /\ line[2 * Len(columns) + 1] = Pipe
    /\ line[Len(line)] = Pipe

headerRegex(line, headers) ==
    MatchesColumns(line, [i \in 1..Len(headers) |-> {headers[i]}])

\* -+
Dashes == {"-", "---"}
IsDashes(w) == w \in Dashes

separatorRegex(line, headers) ==
    MatchesColumns(line, [i \in 1..Len(headers) |-> Dashes])

\* row.split("|").map(cell => cell.trim()): the texts between the pipes, the
\* ones before the first and after the last pipe included.
RECURSIVE splitPipe(_)
splitPipe(row) ==
    IF row = <<>> THEN <<"">>
    ELSE LET rest == splitPipe(Tail(row))
         IN IF Head(row) = Pipe THEN <<"">> \o rest
            ELSE <<Head(row)>> \o Tail(rest)

\* The loop over the lines after the separator, from line i on.
RECURSIVE dataRows(_, _, _)
dataRows(lines, i, headers) ==
    IF i > Len(lines) THEN <<>>
    ELSE LET row == lines[i]
         IN IF row = <<>> \/ Head(row) # Pipe \/ row[Len(row)] # Pipe
            THEN <<>>                                          \* break
            ELSE LET cells == splitPipe(row)
                     rowData == [h \in {headers[k] : k \in 1..Len(headers)} |->
                                   cells[(CHOOSE k \in 1..Len(headers) : headers[k] = h) + 1]]
                 IN IF Len(cells) - 2 < Len(headers)
                    THEN dataRows(lines, i + 1, headers)       \* continue
                    ELSE <<rowData>> \o dataRows(lines, i + 1, headers)

\* content.match(headerRegex).index: the first line that matches, 0 for none.
headerMatch(content, headers) ==
    LET hits == {i \in 1..Len(content) : headerRegex(content[i], headers)}
    IN IF hits = {} THEN 0 ELSE CHOOSE i \in hits : \A j \in hits : i <= j

extractTableData(content, headers) ==
    LET h == headerMatch(content, headers)
    IN IF h = 0 THEN <<>>
       ELSE IF h + 1 > Len(content) \/ ~separatorRegex(content[h + 1], headers)
            THEN <<>>
       ELSE dataRows(content, h + 2, headers)

\* The characters of the text of an id cell, and the text of the characters.
IdWords == {"", "0", "1", "2", "x", "1x"}
Chars(w) ==
    CASE w = "" -> <<>>
      [] w = "1x" -> <<"1", "x">>
      [] OTHER -> <<w>>
WordOf(chars) == CHOOSE w \in IdWords : Chars(w) = chars

\* The rows as extractExpLogData reads them.
TableOf(rows) ==
    [i \in 1..Len(rows) |->
       [Date |-> rows[i].Date, Time |-> rows[i].Time,
        StackID |-> Chars(rows[i].StackID), ExpID |-> Chars(rows[i].ExpID),
        SiteID |-> Chars(rows[i].SiteID),
        Paradigm |-> rows[i].Paradigm, Comment |-> rows[i].Comment]]

\* The cells and the line a table row is typed as.
RowCells(r) ==
    <<r.Date, r.Time, WordOf(r.StackID), WordOf(r.ExpID), WordOf(r.SiteID),
      r.Paradigm, r.Comment>>
RowLine(r) == PipeLine(RowCells(r))

\* The separator row of n columns.
Rule(n) == PipeLine([i \in 1..n |-> "---"])

\* generateTableWithHeaders, with the rows of a table typed in.
DocumentOf(table) ==
    <<PipeLine(getExpLogTableHeadersV2), Rule(Len(getExpLogTableHeadersV2))>>
      \o [i \in 1..Len(table) |-> RowLine(table[i])]

(***************************************************************************)
(* The documents the export command may be invoked on: text before the     *)
(* table, a header row with the expected, with further and with too few    *)
(* columns, a separator row likewise, and up to MaxLines lines after it.   *)
(***************************************************************************)
TextLine == <<"text">>
HeaderLines ==
    {PipeLine(getExpLogTableHeadersV2),
     PipeLine(Append(getExpLogTableHeadersV2, "Notes")),
     PipeLine(SubSeq(getExpLogTableHeadersV2, 1, Len(getExpLogTableHeadersV2) - 1))}
SeparatorLines ==
    {Rule(Len(getExpLogTableHeadersV2)), Rule(Len(getExpLogTableHeadersV2) - 1),
     Rule(Len(getExpLogTableHeadersV2) + 1), TextLine}
TypedRows ==
    {RawRow("2024-05-01", "10:00", Cell(i), Cell(i), Cell(i), "c") : i \in IDs}
      \cup {RawRow("", "", <<>>, <<>>, <<>>, "")}
DataLines ==
    LET cells == RowCells(RawRow("2024-05-01", "10:00", Cell(1), Cell(1), Cell(1), "c"))
    IN {RowLine(r) : r \in TypedRows}
         \cup {PipeLine(Append(cells, "more")),                     \* a further cell
               PipeLine(SubSeq(cells, 1, Len(cells) - 1)),         \* the last cell missing
               SubSeq(PipeLine(cells), 1, Len(PipeLine(cells)) - 1), \* not closed by a pipe
               <<>>, TextLine}
Documents ==
    {before \o <<header>> \o after :
        before \in {<<>>, <<TextLine>>},
        header \in HeaderLines,
        after \in {<<>>} \cup
                  {<<separator>> \o body :
                      separator \in SeparatorLines,
                      body \in UNION {[1..n -> DataLines] : n \in 0..MaxLines}}}

(***************************************************************************)
(* createExpLogTable: a table of the old schema (no Paradigm column) is    *)
(* adapted, a document without a table gets an empty one.                  *)
(***************************************************************************)
getExpLogTableHeaders == <<"Date", "Time", "StackID", "ExpID", "SiteID", "Comment">>

\* \|\s*h1\s*\|\s*h2 ... hn\s*\| tested on one line: the headers are cells
\* next to each other somewhere in the line.
ContainsColumns(line, headers) ==
    \E k \in 1..Len(line) :
        /\ k + 2 * Len(headers) <= Len(line)
        /\ \A i \in 1..Len(headers) :
              line[k + 2 * i - 2] = Pipe /\ line[k + 2 * i - 1] = headers[i]
        /\ line[k + 2 * Len(headers)] = Pipe

\* The tokens of the whole text: a line break is white space to the regex.
RECURSIVE Flatten(_)
Flatten(lines) == IF lines = <<>> THEN <<>> ELSE Head(lines) \o Flatten(Tail(lines))

\* matchingTableExist looking at the first line only.
matchingTableExist_FirstLine(content, headers) ==
    content # <<>> /\ ContainsColumns(content[1], headers)

\* The regex is tested on the whole text, not line by line.
matchingTableExist(content, headers) == ContainsColumns(Flatten(content), headers)

\* Step 2 of adaptTable: the pairs <<old column, new column>> of the columns
\* that are kept, walking both header lists from column o and n on.
RECURSIVE columnMapping(_, _, _, _)
columnMapping(headersOld, headersNew, o, n) ==
    IF n > Len(headersNew) THEN {}
    ELSE IF o <= Len(headersOld) /\ headersOld[o] = headersNew[n]
         THEN {<<o, n>>} \cup columnMapping(headersOld, headersNew, o + 1, n + 1)
    ELSE columnMapping(headersOld, headersNew, o, n + 1)

\* Step 2 of adaptTable: newHeaderOrder.
newHeaderOrder(headersOld, headersNew) ==
    LET kept == columnMapping(headersOld, headersNew, 1, 1)
    IN [n \in 1..Len(headersNew) |->
          IF \E pair \in kept : pair[2] = n
          THEN headersOld[(CHOOSE pair \in kept : pair[2] = n)[1]]
          ELSE headersNew[n]]

adaptTable(content, headersOld, headersNew) ==
    LET hits == {i \in 1..Len(content) : ContainsColumns(content[i], headersOld)}
        headerIndex == CHOOSE i \in hits : \A j \in hits : i <= j
        kept == columnMapping(headersOld, headersNew, 1, 1)
        order == newHeaderOrder(headersOld, headersNew)
        oldCells(line) == SubSeq(splitPipe(line), 2, Len(splitPipe(line)) - 1)
        newRow(line) ==
            [n \in 1..Len(order) |->
               IF \E pair \in kept : pair[2] = n
               THEN oldCells(line)[(CHOOSE pair \in kept : pair[2] = n)[1]]
               ELSE ""]
        IsRow(line) == line # <<>> /\ Head(line) = Pipe /\ line[Len(line)] = Pipe
    IN IF hits = {} THEN content
       ELSE [i \in 1..Len(content) |->
               IF i = headerIndex THEN PipeLine(order)
               ELSE IF i = headerIndex + 1 THEN Rule(Len(order))
               ELSE IF i > headerIndex + 1 /\ IsRow(content[i])
                       /\ Len(oldCells(content[i])) = Len(headersOld)
                    THEN PipeLine(newRow(content[i]))
               ELSE content[i]]

generateTableWithHeaders(headers) ==
    <<PipeLine(headers), Rule(Len(headers)), PipeLine([i \in 1..Len(headers) |-> ""])>>

\* `${content}\n\n${table}`
insertTableIntoFile(content, table) == content \o <<<<>>>> \o table

(***************************************************************************)
(* The documents createExpLogTable may be invoked on: an old-schema table  *)
(* with rows of 5, 6 and 7 cells, possibly with a further column, a table  *)
(* of the current schema, no table.                                        *)
(***************************************************************************)
OldHeaderLines ==
    {PipeLine(getExpLogTableHeaders), PipeLine(Append(getExpLogTableHeaders, "Notes"))}
OldRowCells(r) ==
    <<r.Date, r.Time, WordOf(r.StackID), WordOf(r.ExpID), WordOf(r.SiteID), r.Comment>>
OldDataLines ==
    LET cells == OldRowCells(RawRow("2024-05-01", "10:00", Cell(1), Cell(1), Cell(1), "c"))
    IN {PipeLine(OldRowCells(r)) : r \in TypedRows}
         \cup {PipeLine(Append(cells, "more")),               \* a further cell
               PipeLine(SubSeq(cells, 1, Len(cells) - 1)),   \* the last cell missing
               <<>>, TextLine}
OldDocuments ==
    {before \o <<header, Rule((Len(header) - 1) \div 2)>> \o body :
        before \in {<<>>, <<TextLine>>},
        header \in OldHeaderLines,
        body \in UNION {[1..n -> OldDataLines] : n \in 0..MaxLines}}

(***************************************************************************)
(* The relational store: Sites, Experiments, Stacks (a table is a function *)
(* from the primary keys of its rows) and the fixed Projects table.        *)
(***************************************************************************)
Projects == {"P1"}

SiteRow(a, p, l, d) ==
    [AnimalID |-> a, Project |-> p, Location |-> l, Depth |-> d, DataDeleted |-> FALSE]
ExpRow(si) == [SiteID |-> si]
StackRow(e, d, t, p, c) ==
    [ExpID |-> e, StackDate |-> d, StackTime |-> t, Paradigm |-> p, Comment |-> c]

PartialFns(D, R) == UNION {[S -> R] : S \in SUBSET D}

\* The stores an export may start from: foreign keys hold, at most MaxDBRows rows.
InitialStores ==
    {db \in [sites : PartialFns(IDs, {SiteRow(a, "P1", "L1", NullNum) : a \in Animals}),
             exps : PartialFns(IDs, {ExpRow(si) : si \in IDs}),
             stacks : PartialFns(IDs, {StackRow(e, "2024-04-01", "09:00", "", "old") : e \in IDs})] :
        /\ \A e \in DOMAIN db.exps : db.exps[e].SiteID \in DOMAIN db.sites
        /\ \A st \in DOMAIN db.stacks : db.stacks[st].ExpID \in DOMAIN db.exps
        /\ Cardinality(DOMAIN db.sites) + Cardinality(DOMAIN db.exps)
             + Cardinality(DOMAIN db.stacks) <= MaxDBRows}

Put(table, key, row) == [k \in DOMAIN table \cup {key} |-> IF k = key THEN row ELSE table[k]]

Range(s) == {s[i] : i \in 1..Len(s)}

\* The elements of a set of numbers in ascending order (ORDER BY ... ASC).
RECURSIVE SortAsc(_)
SortAsc(S) ==
    IF S = {} THEN <<>>
    ELSE LET m == CHOOSE x \in S : \A y \in S : x <= y
         IN <<m>> \o SortAsc(S \ {m})

\* Array.from(new Set(ids)): the first occurrences, in order.
RECURSIVE Distinct(_)
Distinct(s) ==
    IF s = <<>> THEN <<>>
    ELSE LET front == Distinct(SubSeq(s, 1, Len(s) - 1))
             last == s[Len(s)]
         IN IF last \in Range(front) THEN front ELSE Append(front, last)

VARIABLES
    content,      \* the lines of the document
    tableData,    \* the data rows of the ExpLog table of the document
    Sites, Experiments, Stacks,
    pluginPc,     \* exportExpLogData: "start", "awaitWizard", "done"
    runs,         \* invocations of the export command so far
    exportData,   \* ExportWizardModal._exportData (actualExportData)
    notices,      \* the notices the latest step that showed any has shown
    modal,        \* the fields of ExportWizardModal, its open flag and its page
    promise,      \* the promise of openWithPromise
    tasks,        \* tasks[0]: onOpen; tasks[1..MaxTasks]: suspended button handlers
    faults,       \* storage calls that threw so far
    returned,     \* history: the validation queries that have returned in this run
    confirmed,    \* history: the Finish button started a batch in this run
    presented,    \* history: the site ids a NewSite page was rendered for, this run
    written,      \* history: <<table, key>> of the writes that succeeded in this run
    userClosed,   \* history: the user closed or cancelled the wizard in this run
    batchDone,    \* history: a Finish batch ran through all records in this run
    snapshot,     \* history: Experiments and Stacks when a batch first ran through
    lastReport,   \* history: the counters of the last batch that ran through
    unhandled,    \* history: a rejection nothing handles occurred in this run
    queryAnimalModal, \* the fields and dropdowns of QueryAnimalModal, its promise
    plugin        \* LabBookExpLogPlugin: _keytar, the password of _settings and _dbConfig,
                  \* the saveSettings calls in flight

db == <<Sites, Experiments, Stacks>>
\* The dialogs of the plugin other than the export wizard.
dialogs == <<queryAnimalModal, plugin>>
hist == <<returned, confirmed, presented, written, userClosed, batchDone, snapshot, lastReport, unhandled>>
vars == <<content, tableData, Sites, Experiments, Stacks, pluginPc, runs, exportData, notices,
          modal, promise, tasks, faults, returned, confirmed, presented, written,
          userClosed,
          batchDone, snapshot, lastReport, unhandled, queryAnimalModal, plugin>>

(***************************************************************************)
(* Storage queries (db-queries).                                           *)
(***************************************************************************)
\* queryMissingSites selecting only the rows that are not soft-deleted.
queryMissingSites_NotDeleted(siteIDs) ==
    LET existingSiteIDs ==
            SortAsc({id \in Range(siteIDs) : id \in DOMAIN Sites /\ ~Sites[id].DataDeleted})
        Missing(id) == id \notin Range(existingSiteIDs)
    IN IF existingSiteIDs = <<>> THEN siteIDs ELSE SelectSeq(siteIDs, Missing)

queryMissingSites(siteIDs) ==
    LET existingSiteIDs == SortAsc({id \in Range(siteIDs) : id \in DOMAIN Sites})
        Missing(id) == id \notin Range(existingSiteIDs)
    IN IF existingSiteIDs = <<>> THEN siteIDs ELSE SelectSeq(siteIDs, Missing)

\* queryInvalidStacksForAnimal with the comparison of the owner turned around.
queryInvalidStacksForAnimal_Same(animalID, stackIDs) ==
    SortAsc({st \in Range(stackIDs) \cap DOMAIN Stacks :
               Sites[Experiments[Stacks[st].ExpID].SiteID].AnimalID = animalID})

queryInvalidStacksForAnimal(animalID, stackIDs) ==
    SortAsc({st \in Range(stackIDs) \cap DOMAIN Stacks :
        /\ Stacks[st].ExpID \in DOMAIN Experiments
        /\ Experiments[Stacks[st].ExpID].SiteID \in DOMAIN Sites
        /\ Sites[Experiments[Stacks[st].ExpID].SiteID].AnimalID # animalID})

\* An ownership query for experiments that reports nothing.
queryInvalidExperimentsForAnimal_None(animalID, expIDs) == <<>>

queryInvalidExperimentsForAnimal(animalID, expIDs) ==
    SortAsc({e \in Range(expIDs) \cap DOMAIN Experiments :
        /\ Experiments[e].SiteID \in DOMAIN Sites
        /\ Sites[Experiments[e].SiteID].AnimalID # animalID})

queryInvalidSitesForAnimal(animalID, siteIDs) ==
    SortAsc({si \in Range(siteIDs) \cap DOMAIN Sites : Sites[si].AnimalID # animalID})

queryProjects == Projects

queryLocations == {Sites[si].Location : si \in {x \in DOMAIN Sites : ~Sites[x].DataDeleted}}

(***************************************************************************)
(* Messages: a text is a sequence of lines, a line is a fixed text with    *)
(* the ids it lists; "" and null are both the empty sequence of lines.     *)
(***************************************************************************)
Line(text, ids) == [text |-> text, ids |-> ids]
Msg(text) == <<Line(text, <<>>)>>
Null == <<>>
CancelMsg == Msg("User cancelled the export.")
ConnectionError == Msg("connection error")
ConstraintError == Msg("constraint violation")

(***************************************************************************)
(* ExportWizardModal: fields, pages, promise.                              *)
(***************************************************************************)
NoPage == [kind |-> "none"]
ValidatingPage == [kind |-> "validating"]
NewSitePage(siteID, index) == [kind |-> "newsite", siteID |-> siteID, index |-> index]
FinishPage == [kind |-> "finish"]

Idle == [kind |-> "idle", pc |-> "idle"]

\* The fields after the constructor, before open().
NewModal ==
    [result |-> Null, wasCancelled |-> TRUE, currentStep |-> 0,
     missingSitesIDs |-> <<>>, missingSiteIDsIndex |-> 0,
     projects |-> {}, locations |-> {},
     isOpen |-> FALSE, page |-> NoPage]

Pending == [resolved |-> FALSE, value |-> Null]
\* _resolvePromise(value): only the first call settles the promise.
Resolve(p, value) == IF p.resolved THEN p ELSE [resolved |-> TRUE, value |-> value]

\* onClose, as run by close().
onClose(m) ==
    [m EXCEPT !.page = NoPage, !.isOpen = FALSE,
              !.result = IF m.wasCancelled THEN CancelMsg ELSE m.result]

\* this._result = message; this._resolvePromise(this._result); this.close()
\* changes modal and promise as follows.
FailModal(m, message) == onClose([m EXCEPT !.result = message])
FailPromise(p, m, message) == Resolve(Resolve(p, message), FailModal(m, message).result)

currentStackIDs(batch) ==
    LET Has(r) == TruthyNum(r.stackID)
        sel == SelectSeq(batch, Has)
    IN [i \in 1..Len(sel) |-> sel[i].stackID]
currentExpIDs(batch) ==
    LET Has(r) == TruthyNum(r.expID)
        sel == SelectSeq(batch, Has)
    IN [i \in 1..Len(sel) |-> sel[i].expID]
currentSiteIDs(batch) ==
    LET Has(r) == TruthyNum(r.siteID)
        sel == SelectSeq(batch, Has)
    IN [i \in 1..Len(sel) |-> sel[i].siteID]

(***************************************************************************)
(* QueryAnimalModal: the PI dropdown, the Animal dropdown filled from it,  *)
(* the Select button.  The Animals table is fixed: one PI per animal.      *)
(***************************************************************************)
NullAnimal == "null"             \* _result before an animal is chosen
PIOf == (AnimalID :> "PI1") @@ (OtherAnimal :> "PI2")

\* select distinct PI from Animals ...; select AnimalID from Animals where PI = @pi
queryPIs == {PIOf[a] : a \in Animals}
queryAnimals(pi) == {a \in Animals : PIOf[a] = pi}

\* The modal before openWithPromise: each dropdown holds "Please select" only
\* (value ""), _result is null.  pending holds the PIs whose queryAnimals call
\* has not returned; pc is "closed", "queryPIs" (the PI list is being fetched,
\* no change handler on the PI dropdown yet), "ready" or "done".
NewQueryAnimalModal ==
    [pc |-> "closed", piOptions |-> {}, piValue |-> "",
     animalOptions |-> {}, animalValue |-> "", result |-> NullAnimal,
     pending |-> {}, resolved |-> FALSE, value |-> NullAnimal]

(***************************************************************************)
(* The settings of the plugin: the password is kept in the keytar store    *)
(* and in memory, never in the settings file.                              *)
(***************************************************************************)
MaxSaves == 2                    \* saveSettings calls in flight at a time
Passwords == {"", "a", "ab"}     \* the contents of the password field
DBUsers == {"", "dbuser"}

NoSave == [pc |-> "idle", password |-> ""]

\* The plugin after onload: loadSettings has read the password from the keytar
\* store (if loaded), updateDBConfig has copied it.  saved holds the dbPassword
\* of every settings object passed to saveData, entered the latest content of
\* the password field, threw whether a call of the keytar store or of saveData
\* has thrown.
LoadedPlugin(keytar, dbUser, password) ==
    [keytar |-> keytar, dbUser |-> dbUser, dbPassword |-> password,
     dbConfigPassword |-> password, keychain |-> password,
     calls |-> [c \in 1..MaxSaves |-> NoSave],
     saved |-> {}, entered |-> password, threw |-> FALSE]

DialogsClosed ==
    /\ queryAnimalModal = NewQueryAnimalModal
    /\ plugin = LoadedPlugin(FALSE, "", "")

(***************************************************************************)
(* Initial states: a document with a table, a store, nothing running.      *)
(***************************************************************************)
NoSnap == [none |-> TRUE]
NoReport == [run |-> 0]
OpenTask(pc, invalidStackIDs, invalidExpIDs) ==
    [kind |-> "open", pc |-> pc,
     invalidStackIDs |-> invalidStackIDs, invalidExpIDs |-> invalidExpIDs]
RenderTask(pc) == [kind |-> "render", pc |-> pc]
\* The record of a task that ended: onOpen keeps its slot, a handler frees it.
Ended(t) == IF t = 0 THEN OpenTask("done", <<>>, <<>>) ELSE Idle

Init ==
    /\ \E table \in Tables : content = DocumentOf(table)
    /\ tableData = TableOf(extractTableData(content, getExpLogTableHeadersV2))
    /\ \E store \in InitialStores :
          /\ Sites = store.sites
          /\ Experiments = store.exps
          /\ Stacks = store.stacks
    /\ pluginPc = "start"
    /\ runs = 0
    /\ exportData = <<>>
    /\ notices = {}
    /\ modal = NewModal
    /\ promise = Pending
    /\ tasks = [t \in 0..MaxTasks |-> Idle]
    /\ faults = 0
    /\ returned = {}
    /\ confirmed = FALSE
    /\ presented = <<>>
    /\ written = {}
    /\ userClosed = FALSE
    /\ batchDone = FALSE
    /\ snapshot = NoSnap
    /\ lastReport = NoReport
    /\ unhandled = FALSE
    /\ DialogsClosed

Quiescent == \A t \in 0..MaxTasks : tasks[t] = Idle \/ tasks[t].pc = "done"

(***************************************************************************)
(* exportExpLogData: extraction, the completeness/validity gate, and the   *)
(* opening of the wizard.                                                  *)
(***************************************************************************)
invalidRows(data) == Positions(SelectSeq(data, isInvalid))
incompleteRows(data) ==
    LET NotComplete(r) == ~isComplete(r) IN Positions(SelectSeq(data, NotComplete))
actualExportData(data) ==
    LET NotEmpty(r) == ~isEmpty(r) IN SelectSeq(data, NotEmpty)

\* The gate without the check for incomplete records.
GateNotice_NoIncomplete(data) ==
    IF data = <<>> THEN Msg("No data to be exported.")
    ELSE IF invalidRows(data) # <<>>
         THEN <<Line("There is invalid data!", invalidRows(data))>>
    ELSE IF actualExportData(data) = <<>> THEN Msg("No data to be exported.")
    ELSE Null

\* The notice the gate ends with, or Null when the batch may go on.
GateNotice(data) ==
    IF data = <<>> THEN Msg("No data to be exported.")
    ELSE IF invalidRows(data) # <<>>
         THEN <<Line("There is invalid data!", invalidRows(data))>>
    ELSE IF incompleteRows(data) # <<>>
         THEN <<Line("There is incomplete data!", incompleteRows(data))>>
    ELSE IF actualExportData(data) = <<>> THEN Msg("No data to be exported.")
    ELSE Null

StartExport ==
    /\ runs' = runs + 1
    /\ LET data == extractExpLogData(tableData)
           gate == GateNotice(data)
       IN IF gate # Null
          THEN /\ notices' = {gate[1]}
               /\ pluginPc' = "done"
               /\ exportData' = <<>>
               /\ modal' = NewModal
               /\ promise' = Pending
               /\ tasks' = [t \in 0..MaxTasks |-> Idle]
          ELSE /\ notices' = {}
               /\ pluginPc' = "awaitWizard"
               /\ exportData' = actualExportData(data)
               /\ modal' = [NewModal EXCEPT !.isOpen = TRUE]
               /\ promise' = Pending
               /\ tasks' = [t \in 0..MaxTasks |->
                              IF t = 0 THEN OpenTask("onOpen", <<>>, <<>>) ELSE Idle]
    /\ returned' = {}
    /\ confirmed' = FALSE
    /\ presented' = <<>>
    /\ written' = {}
    /\ userClosed' = FALSE
    /\ batchDone' = FALSE
    /\ unhandled' = FALSE
    /\ UNCHANGED <<dialogs, content, tableData, db, faults, snapshot, lastReport>>

\* The export command, invoked on the document.
ExportExpLogData ==
    /\ pluginPc = "start"
    /\ StartExport

\* The export command, invoked again once the previous export is over.
ExportAgain ==
    /\ pluginPc = "done" /\ runs < MaxRuns /\ Quiescent
    /\ StartExport

\* The continuation of exportExpLogData after await exportModal.openWithPromise().
ExportResult ==
    /\ pluginPc = "awaitWizard"
    /\ promise.resolved
    /\ pluginPc' = "done"
    /\ notices' =
          (IF promise.value = Null
           THEN {Line("Data has been exported successfully.", <<>>)}
           ELSE {Line("Sorry, data has not been exported.", <<>>)} \cup Range(promise.value))
    /\ UNCHANGED <<dialogs, content, tableData, db, runs, exportData, modal, promise, tasks, faults, hist>>

(***************************************************************************)
(* renderCurrentStep / renderStepNewSite / renderStepFinish.  A render     *)
(* gives the modal after the synchronous part, where the caller goes on    *)
(* ("end", "closed", "threw", or the storage query it awaits) and the site *)
(* id of the NewSite page it created, if any.                              *)
(***************************************************************************)
Rendered(m, next, shown) == [modal |-> m, next |-> next, shown |-> shown]

\* renderStepNewSite from line 195 on: the page of the current site.
renderNewSitePage(m) ==
    LET currSiteID == m.missingSitesIDs[m.missingSiteIDsIndex + 1]
    IN Rendered([m EXCEPT !.page = NewSitePage(currSiteID, m.missingSiteIDsIndex)],
                "end", <<currSiteID>>)

renderAfterProjects(m) ==
    IF m.locations = {} THEN Rendered(m, "queryLocations", <<>>)
    ELSE renderNewSitePage(m)

renderStepNewSite(m) ==
    IF Len(m.missingSitesIDs) = 0 THEN Rendered(m, "threw", <<>>)
    ELSE IF m.missingSiteIDsIndex > 0
            /\ m.missingSiteIDsIndex + 1 > Len(m.missingSitesIDs)
         THEN Rendered(m, "threw", <<>>)
    ELSE IF m.projects = {} THEN Rendered(m, "queryProjects", <<>>)
    ELSE renderAfterProjects(m)

\* renderCurrentStep with step 1 falling through to the Finish page.
renderCurrentStep_FallThrough(m) ==
    LET c == [m EXCEPT !.page = NoPage]
    IN CASE m.currentStep = 0 -> Rendered([c EXCEPT !.page = ValidatingPage], "end", <<>>)
         [] m.currentStep \in {1, 2} -> Rendered([c EXCEPT !.page = FinishPage], "end", <<>>)
         [] OTHER -> Rendered(onClose(c), "closed", <<>>)

\* renderCurrentStep with the Finish page shown at step 0 as well.
renderCurrentStep_FinishAtStart(m) ==
    LET c == [m EXCEPT !.page = NoPage]
    IN CASE m.currentStep = 1 -> renderStepNewSite(c)
         [] m.currentStep \in {0, 2} -> Rendered([c EXCEPT !.page = FinishPage], "end", <<>>)
         [] OTHER -> Rendered(onClose(c), "closed", <<>>)

renderCurrentStep(m) ==
    LET c == [m EXCEPT !.page = NoPage]
    IN CASE m.currentStep = 0 -> Rendered([c EXCEPT !.page = ValidatingPage], "end", <<>>)
         [] m.currentStep = 1 -> renderStepNewSite(c)
         [] m.currentStep = 2 -> Rendered([c EXCEPT !.page = FinishPage], "end", <<>>)
         [] OTHER -> Rendered(onClose(c), "closed", <<>>)

\* What a render leaves of the task that ran it, and of the promise.
TaskAfter(t, r) ==
    IF r.next \in {"queryProjects", "queryLocations"}
    THEN (IF t = 0 THEN OpenTask(r.next, <<>>, <<>>) ELSE RenderTask(r.next))
    ELSE Ended(t)
PromiseAfter(p, m, r) ==
    IF r.next = "closed" THEN Resolve(Resolve(p, m.result), r.modal.result) ELSE p

(***************************************************************************)
(* onOpen and ValidateExportData.                                          *)
(***************************************************************************)
distinctStackIDs == Distinct(currentStackIDs(exportData))
distinctExpIDs == Distinct(currentExpIDs(exportData))
distinctSiteIDs == Distinct(currentSiteIDs(exportData))

\* A storage call of onOpen throws: the catch block of onOpen.
OnOpenCatch(pc) ==
    /\ tasks[0].kind = "open" /\ tasks[0].pc = pc
    /\ faults < MaxFaults
    /\ faults' = faults + 1
    /\ modal' = FailModal(modal, ConnectionError)
    /\ promise' = FailPromise(promise, modal, ConnectionError)
    /\ tasks' = [tasks EXCEPT ![0] = Ended(0)]
    /\ UNCHANGED <<dialogs, content, tableData, db, pluginPc, runs, exportData, notices, hist>>

\* onOpen up to the first storage call (lines 38-74).
OnOpen ==
    /\ tasks[0].kind = "open" /\ tasks[0].pc = "onOpen"
    /\ LET r == renderCurrentStep(modal)
           message ==
             IF AnimalID = "" THEN Msg("Animal ID is required.")
             ELSE IF Len(exportData) = 0 THEN Msg("Export data is required.")
             ELSE IF \/ Len(currentStackIDs(exportData)) = 0
                     \/ Len(currentExpIDs(exportData)) = 0
                     \/ Len(currentSiteIDs(exportData)) = 0
                  THEN Msg("StackIDs, ExpIDs and SiteIDs must be available in export data.")
             ELSE Null
       IN IF message # Null
          THEN /\ modal' = FailModal(r.modal, message)
               /\ promise' = FailPromise(promise, r.modal, message)
               /\ tasks' = [tasks EXCEPT ![0] = Ended(0)]
          ELSE /\ modal' = r.modal
               /\ promise' = promise
               /\ tasks' = [tasks EXCEPT ![0] = OpenTask("queryMissingSites", <<>>, <<>>)]
    /\ UNCHANGED <<dialogs, content, tableData, db, pluginPc, runs, exportData, notices, faults, hist>>

QueryMissingSites ==
    \/ OnOpenCatch("queryMissingSites")
    \/ /\ tasks[0].kind = "open" /\ tasks[0].pc = "queryMissingSites"
       /\ modal' = [modal EXCEPT !.missingSitesIDs = queryMissingSites(distinctSiteIDs)]
       /\ tasks' = [tasks EXCEPT ![0] = OpenTask("queryInvalidStacks", <<>>, <<>>)]
       /\ returned' = returned \cup {"queryMissingSites"}
       /\ UNCHANGED <<dialogs, content, tableData, db, pluginPc, runs, exportData, notices, promise,
                      faults, confirmed, presented, written, userClosed, batchDone,
                      snapshot, lastReport, unhandled>>

QueryInvalidStacks ==
    \/ OnOpenCatch("queryInvalidStacks")
    \/ /\ tasks[0].kind = "open" /\ tasks[0].pc = "queryInvalidStacks"
       /\ tasks' = [tasks EXCEPT ![0] =
             OpenTask("queryInvalidExperiments",
                      queryInvalidStacksForAnimal(AnimalID, distinctStackIDs), <<>>)]
       /\ returned' = returned \cup {"queryInvalidStacksForAnimal"}
       /\ UNCHANGED <<dialogs, content, tableData, db, pluginPc, runs, exportData, notices, modal, promise,
                      faults, confirmed, presented, written, userClosed, batchDone,
                      snapshot, lastReport, unhandled>>

QueryInvalidExperiments ==
    \/ OnOpenCatch("queryInvalidExperiments")
    \/ /\ tasks[0].kind = "open" /\ tasks[0].pc = "queryInvalidExperiments"
       /\ tasks' = [tasks EXCEPT ![0] =
             OpenTask("queryInvalidSites", tasks[0].invalidStackIDs,
                      queryInvalidExperimentsForAnimal(AnimalID, distinctExpIDs))]
       /\ returned' = returned \cup {"queryInvalidExperimentsForAnimal"}
       /\ UNCHANGED <<dialogs, content, tableData, db, pluginPc, runs, exportData, notices, modal, promise,
                      faults, confirmed, presented, written, userClosed, batchDone,
                      snapshot, lastReport, unhandled>>

\* missingStackExpIDs with the match leaving out the StackID.
missingStackExpIDs_NoStack(missing, batch) ==
    LET Unmatched(siteID) ==
          \A i \in 1..Len(batch) :
             ~(batch[i].siteID = siteID /\ batch[i].expID = siteID)
    IN SelectSeq(missing, Unmatched)

\* The new site ids of the list no record of the batch carries as all three ids.
missingStackExpIDs(missing, batch) ==
    LET Unmatched(siteID) ==
          \A i \in 1..Len(batch) :
             ~(batch[i].siteID = siteID /\ batch[i].stackID = siteID
               /\ batch[i].expID = siteID)
    IN SelectSeq(missing, Unmatched)

\* ValidateExportData after its three queries: messages.join("\n").
ValidationMessages(invalidStackIDs, invalidExpIDs, invalidSiteIDs, missing, batch) ==
    (IF invalidStackIDs # <<>> \/ invalidExpIDs # <<>> \/ invalidSiteIDs # <<>>
     THEN Msg("Some StackIDs, ExpIDs or SiteIDs are belonging to different animal.")
          \o (IF invalidStackIDs # <<>> THEN <<Line("StackIDs", invalidStackIDs)>> ELSE <<>>)
          \o (IF invalidExpIDs # <<>> THEN <<Line("ExpIDs", invalidExpIDs)>> ELSE <<>>)
          \o (IF invalidSiteIDs # <<>> THEN <<Line("SiteIDs", invalidSiteIDs)>> ELSE <<>>)
     ELSE <<>>)
    \o (IF missing # <<>> /\ missingStackExpIDs(missing, batch) # <<>>
        THEN <<Line("Following new SiteIDs don't have matching StackID / ExpID",
                    missingStackExpIDs(missing, batch))>>
        ELSE <<>>)

\* onOpen moving to the Finish step whatever the new-site list holds.
StepAfterValidation_Finish(m) == [m EXCEPT !.currentStep = m.currentStep + 2]

\* The step onOpen moves to once validation passed (lines 87-92).
StepAfterValidation(m) ==
    IF Len(m.missingSitesIDs) > 0
    THEN [m EXCEPT !.currentStep = m.currentStep + 1]
    ELSE [m EXCEPT !.currentStep = m.currentStep + 2]

\* The last query of ValidateExportData returns; onOpen runs to its end.
QueryInvalidSites ==
    \/ OnOpenCatch("queryInvalidSites")
    \/ /\ tasks[0].kind = "open" /\ tasks[0].pc = "queryInvalidSites"
       /\ LET validationResult ==
                ValidationMessages(tasks[0].invalidStackIDs, tasks[0].invalidExpIDs,
                                   queryInvalidSitesForAnimal(AnimalID, distinctSiteIDs),
                                   modal.missingSitesIDs, exportData)
              r == renderCurrentStep(StepAfterValidation(modal))
          IN IF validationResult # <<>>
             THEN /\ modal' = FailModal(modal, validationResult)
                  /\ promise' = FailPromise(promise, modal, validationResult)
                  /\ tasks' = [tasks EXCEPT ![0] = Ended(0)]
                  /\ UNCHANGED <<presented, unhandled>>
             ELSE /\ modal' = r.modal
                  /\ promise' = PromiseAfter(promise, StepAfterValidation(modal), r)
                  /\ tasks' = [tasks EXCEPT ![0] = TaskAfter(0, r)]
                  /\ presented' = presented \o r.shown
                  /\ unhandled' = (unhandled \/ r.next = "threw")
       /\ returned' = returned \cup {"queryInvalidSitesForAnimal"}
       /\ UNCHANGED <<dialogs, content, tableData, db, pluginPc, runs, exportData, notices, faults,
                      confirmed, written, userClosed, batchDone, snapshot, lastReport>>

(***************************************************************************)
(* renderStepNewSite suspended at queryProjects / queryLocations.  Nothing *)
(* awaits or catches the promise of renderStepNewSite (renderCurrentStep   *)
(* calls it without await), so a query that throws is an unhandled         *)
(* rejection and leaves the wizard without a page.                         *)
(***************************************************************************)
RenderThrows(t, pc) ==
    /\ tasks[t].kind \in {"open", "render"} /\ tasks[t].pc = pc
    /\ faults < MaxFaults
    /\ faults' = faults + 1
    /\ unhandled' = TRUE
    /\ tasks' = [tasks EXCEPT ![t] = Ended(t)]
    /\ UNCHANGED <<dialogs, content, tableData, db, pluginPc, runs, exportData, notices, modal, promise,
                   returned, confirmed, presented, written, userClosed, batchDone,
                   snapshot, lastReport>>

RenderQueryProjects(t) ==
    \/ RenderThrows(t, "queryProjects")
    \/ /\ tasks[t].kind \in {"open", "render"} /\ tasks[t].pc = "queryProjects"
       /\ LET r == renderAfterProjects([modal EXCEPT !.projects = queryProjects])
          IN /\ modal' = r.modal
             /\ tasks' = [tasks EXCEPT ![t] = TaskAfter(t, r)]
             /\ presented' = presented \o r.shown
       /\ UNCHANGED <<dialogs, content, tableData, db, pluginPc, runs, exportData, notices, promise, faults,
                      returned, confirmed, written, userClosed, batchDone, snapshot,
                      lastReport, unhandled>>

RenderQueryLocations(t) ==
    \/ RenderThrows(t, "queryLocations")
    \/ /\ tasks[t].kind \in {"open", "render"} /\ tasks[t].pc = "queryLocations"
       /\ LET r == renderNewSitePage([modal EXCEPT !.locations = queryLocations])
          IN /\ modal' = r.modal
             /\ tasks' = [tasks EXCEPT ![t] = TaskAfter(t, r)]
             /\ presented' = presented \o r.shown
       /\ UNCHANGED <<dialogs, content, tableData, db, pluginPc, runs, exportData, notices, promise, faults,
                      returned, confirmed, written, userClosed, batchDone, snapshot,
                      lastReport, unhandled>>

(***************************************************************************)
(* The NewSite step: NewSiteWizardPage.onNext and the onSuccess handler of *)
(* renderStepNewSite.                                                      *)
(***************************************************************************)
\* utils.isInteger on a text of the model's alphabet: Number(value) is an
\* integer exactly when the text is a non-empty run of digits.
isInteger(value) == value # <<>> /\ \A i \in 1..Len(value) : IsDigit(value[i])
Number(value) == DigitPrefixVal(value, 0)

\* What the user may have entered when pressing Next: project, location, depth text.
SiteInputs ==
    {<<"P1", "L1", <<>>>>, <<"P1", "L1", <<"5">>>>, <<"PX", "L1", <<>>>>,
     <<"", "L1", <<>>>>, <<"P1", "", <<>>>>, <<"P1", "L1", <<"x">>>>}

\* The lowest free handler slot.
FreeSlot(t) == tasks[t] = Idle /\ \A u \in 1..(t - 1) : tasks[u] # Idle

\* onNext storing Number("") = 0 for an absent depth.
onNextNewSite_DepthZero(project, location, depthString) ==
    IF ~TruthyStr(project) \/ ~TruthyStr(location)
    THEN [ok |-> FALSE, notice |-> Line("Please provide Project and Location!", <<>>)]
    ELSE IF TruthyCell(depthString) /\ ~isInteger(depthString)
    THEN [ok |-> FALSE, notice |-> Line("Please provide valid integer for Depth!", <<>>)]
    ELSE [ok |-> TRUE, project |-> project, location |-> location,
          depth |-> Number(depthString)]

\* onNext without the check of the depth text.
onNextNewSite_AnyDepth(project, location, depthString) ==
    IF ~TruthyStr(project) \/ ~TruthyStr(location)
    THEN [ok |-> FALSE, notice |-> Line("Please provide Project and Location!", <<>>)]
    ELSE [ok |-> TRUE, project |-> project, location |-> location,
          depth |-> IF TruthyCell(depthString) THEN Number(depthString) ELSE NullNum]

\* onNext: the object passed to triggerSuccess, or the warning it ends with.
onNextNewSite(project, location, depthString) ==
    IF ~TruthyStr(project) \/ ~TruthyStr(location)
    THEN [ok |-> FALSE, notice |-> Line("Please provide Project and Location!", <<>>)]
    ELSE IF TruthyCell(depthString) /\ ~isInteger(depthString)
    THEN [ok |-> FALSE, notice |-> Line("Please provide valid integer for Depth!", <<>>)]
    ELSE [ok |-> TRUE, project |-> project, location |-> location,
          depth |-> IF TruthyCell(depthString) THEN Number(depthString) ELSE NullNum]

NewSiteNext(t, input) ==
    /\ modal.isOpen /\ modal.page.kind = "newsite"
    /\ FreeSlot(t)
    /\ LET res == onNextNewSite(input[1], input[2], input[3])
       IN IF res.ok
          THEN /\ tasks' = [tasks EXCEPT ![t] =
                    [kind |-> "newsite", pc |-> "addNewSite", siteID |-> modal.page.siteID,
                     project |-> res.project, location |-> res.location,
                     depth |-> res.depth]]
                          /\ notices' = notices
          ELSE /\ notices' = {res.notice}
               /\ UNCHANGED tasks
    /\ UNCHANGED <<dialogs, content, tableData, db, pluginPc, runs, exportData, modal, promise, faults,
                   hist>>

\* An upsert of the site: only the foreign key to Projects can fail.
SiteInsertFails_ForeignKeyOnly(siteID, project) == project \notin Projects

\* INSERT INTO Sites: the primary key and the foreign key to Projects.
SiteInsertFails(siteID, project) == siteID \in DOMAIN Sites \/ project \notin Projects

\* The step counter raised by 2 after the last site, as onOpen does when no
\* site is new.
AdvanceSite_PastFinish(m) ==
    LET m1 == [m EXCEPT !.missingSiteIDsIndex = m.missingSiteIDsIndex + 1]
    IN IF ~(m1.missingSiteIDsIndex + 1 <= Len(m1.missingSitesIDs))
       THEN [m1 EXCEPT !.currentStep = m1.currentStep + 2]
       ELSE m1

\* The step counter moved on after every site that was added.
AdvanceSite_ToFinish(m) ==
    [m EXCEPT !.missingSiteIDsIndex = m.missingSiteIDsIndex + 1,
              !.currentStep = m.currentStep + 1]

\* The fields after a site was added (lines 205-208).
AdvanceSite(m) ==
    LET m1 == [m EXCEPT !.missingSiteIDsIndex = m.missingSiteIDsIndex + 1]
    IN IF ~(m1.missingSiteIDsIndex + 1 <= Len(m1.missingSitesIDs))
       THEN [m1 EXCEPT !.currentStep = m1.currentStep + 1]
       ELSE m1

\* A catch block that also moves on to the next site.
HandlerCatch_Advances(t, message, isFault) ==
    /\ isFault => faults < MaxFaults
    /\ faults' = IF isFault THEN faults + 1 ELSE faults
    /\ notices' = Range(message)
    /\ tasks' = [tasks EXCEPT ![t] = Idle]
    /\ modal' = [modal EXCEPT !.missingSiteIDsIndex = modal.missingSiteIDsIndex + 1]
    /\ UNCHANGED <<dialogs, content, tableData, db, pluginPc, runs, exportData, promise, hist>>

\* A catch block inside the loop: the batch goes on with the next record.
HandlerCatch_Continues(t, message, isFault) ==
    /\ isFault => faults < MaxFaults
    /\ faults' = IF isFault THEN faults + 1 ELSE faults
    /\ notices' = Range(message)
    /\ tasks' = [tasks EXCEPT ![t] =
                   IF tasks[t].kind = "finish" /\ tasks[t].k < Len(exportData)
                   THEN [tasks[t] EXCEPT !.k = tasks[t].k + 1, !.pc = "updateExperiment"]
                   ELSE Idle]
    /\ UNCHANGED <<dialogs, content, tableData, db, pluginPc, runs, exportData, modal, promise, hist>>

\* A handler's catch block: an error notice, the handler ends.
HandlerCatch(t, message, isFault) ==
    /\ isFault => faults < MaxFaults
    /\ faults' = IF isFault THEN faults + 1 ELSE faults
    /\ notices' = Range(message)
    /\ tasks' = [tasks EXCEPT ![t] = Idle]
    /\ UNCHANGED <<dialogs, content, tableData, db, pluginPc, runs, exportData, modal, promise, hist>>

AddNewSite(t) ==
    /\ tasks[t].kind = "newsite" /\ tasks[t].pc = "addNewSite"
    /\ \/ HandlerCatch(t, ConnectionError, TRUE)
       \/ /\ SiteInsertFails(tasks[t].siteID, tasks[t].project)
          /\ HandlerCatch(t, ConstraintError, FALSE)
       \/ /\ ~SiteInsertFails(tasks[t].siteID, tasks[t].project)
          /\ Sites' = Put(Sites, tasks[t].siteID,
                          SiteRow(AnimalID, tasks[t].project, tasks[t].location,
                                  tasks[t].depth))
          /\ written' = written \cup {<<"Sites", tasks[t].siteID>>}
          /\ notices' = {Line("New Site added successfully.", <<tasks[t].siteID>>)}
          /\ LET r == renderCurrentStep(AdvanceSite(modal))
             IN /\ modal' = r.modal
                /\ promise' = PromiseAfter(promise, AdvanceSite(modal), r)
                /\ tasks' = [tasks EXCEPT ![t] = TaskAfter(t, r)]
                /\ presented' = presented \o r.shown
                /\ unhandled' = (unhandled \/ r.next = "threw")
          /\ UNCHANGED <<dialogs, content, tableData, Experiments, Stacks, pluginPc, runs, exportData,
                         faults, returned, confirmed, userClosed, batchDone, snapshot,
                         lastReport>>

(***************************************************************************)
(* Closing: the Cancel button of the Finish page, and Esc / the close      *)
(* button of the modal.                                                    *)
(***************************************************************************)
Close ==
    /\ modal' = onClose(modal)
    /\ promise' = Resolve(promise, onClose(modal).result)
    /\ userClosed' = TRUE
    /\ UNCHANGED <<dialogs, content, tableData, db, pluginPc, runs, exportData, notices, tasks, faults,
                   returned, confirmed, presented, written, batchDone, snapshot,
                   lastReport, unhandled>>

FinishCancel ==
    /\ modal.isOpen /\ modal.page.kind = "finish"
    /\ Close

\* open() runs onOpen up to its first storage call before any user event.
UserClose ==
    /\ modal.isOpen /\ tasks[0].pc # "onOpen"
    /\ Close

(***************************************************************************)
(* The Finish step: the onSuccess handler of renderStepFinish.  A handler  *)
(* is suspended at one statement at a time; pc names the statement in      *)
(* flight for record k of the batch.                                       *)
(***************************************************************************)
Stmt(op, table, position, count) ==
    [op |-> op, table |-> table, position |-> position, count |-> count]

\* The batch with the Stack of a record written first.
FinishTask_StackFirst(second, alone) ==
    [kind |-> "finish", pc |-> "updateStack", k |-> 1,
     countInsExp |-> 0, countUpdExp |-> 0, countInsStack |-> 0, countUpdStack |-> 0,
     second |-> second, alone |-> alone, log |-> <<>>,
     before |-> [exps |-> DOMAIN Experiments, stacks |-> DOMAIN Stacks]]

FinishTask(second, alone) ==
    [kind |-> "finish", pc |-> "updateExperiment", k |-> 1,
     countInsExp |-> 0, countUpdExp |-> 0, countInsStack |-> 0, countUpdStack |-> 0,
     second |-> second, alone |-> alone, log |-> <<>>,
     before |-> [exps |-> DOMAIN Experiments, stacks |-> DOMAIN Stacks]]

FinishRunning == {u \in 1..MaxTasks : tasks[u].kind = "finish"}

\* The Finish button.  A batch that starts next to a running one is not alone,
\* and neither is the running one from then on.
\* A batch remembers the ids the two tables held when it started (before).
FinishNext(t) ==
    /\ modal.isOpen /\ modal.page.kind = "finish"
    /\ FreeSlot(t)
    /\ Len(exportData) > 0
    /\ tasks' = [u \in 0..MaxTasks |->
                   IF u = t THEN FinishTask(snapshot # NoSnap, FinishRunning = {})
                   ELSE IF tasks[u].kind = "finish" THEN [tasks[u] EXCEPT !.alone = FALSE]
                   ELSE tasks[u]]
    /\ confirmed' = TRUE
    /\ UNCHANGED <<dialogs, content, tableData, db, pluginPc, runs, exportData, notices, modal, promise,
                   faults, returned, presented, written, userClosed, batchDone, snapshot,
                   lastReport, unhandled>>

\* The row of dbo.Stacks written for a record (dataStack).
StackRowOf(data) ==
    StackRow(data.expID, data.logDateTime[1], data.logDateTime[2], data.paradigm,
             data.comment)

\* The handler after the Stack of record k is written: the next record, or the
\* end of the loop.
NextRecord(task) ==
    IF task.k < Len(exportData)
    THEN [task EXCEPT !.k = task.k + 1, !.pc = "updateExperiment"]
    ELSE [task EXCEPT !.pc = "loopEnd"]

\* A statement of the batch succeeded: the tables after it, the handler after it.
\* At the end of the loop (lines 264-280): _wasCancelled = false, close(), and
\* the notices with the counters.
FinishStep(t, task, exps, stacks, wrote) ==
    /\ Experiments' = exps
    /\ Stacks' = stacks
    /\ written' = written \cup wrote
    /\ IF task.pc = "loopEnd"
       THEN /\ modal' = onClose([modal EXCEPT !.wasCancelled = FALSE])
            /\ promise' = Resolve(promise, modal'.result)
            /\ notices' =
                  {Line("Experiments", <<task.countInsExp, task.countUpdExp>>),
                   Line("Stacks", <<task.countInsStack, task.countUpdStack>>)}
            /\ tasks' = [tasks EXCEPT ![t] = Idle]
            /\ batchDone' = TRUE
            /\ snapshot' = IF snapshot = NoSnap
                           THEN [exps |-> exps, stacks |-> stacks,
                                 inserted |-> task.countInsExp + task.countInsStack]
                           ELSE snapshot
            /\ lastReport' = [run |-> runs, second |-> task.second, alone |-> task.alone,
                              countInsExp |-> task.countInsExp,
                              countUpdExp |-> task.countUpdExp,
                              countInsStack |-> task.countInsStack,
                              countUpdStack |-> task.countUpdStack,
                              log |-> task.log, before |-> task.before,
                              exps |-> exps, stacks |-> stacks]
       ELSE /\ tasks' = [tasks EXCEPT ![t] = task]
                    /\ UNCHANGED <<modal, promise, notices, batchDone, snapshot, lastReport>>
    /\ UNCHANGED <<dialogs, content, tableData, Sites, pluginPc, runs, exportData, faults, returned,
                   confirmed, presented, userClosed, unhandled>>

\* The Experiment counters with the two branches exchanged.
CountExp_Swapped(task, countExp) ==
    IF countExp = 0 THEN [task EXCEPT !.countUpdExp = task.countUpdExp + 1]
    ELSE [task EXCEPT !.countInsExp = task.countInsExp + 1]

\* The counter a write of the loop increments: Ins after an INSERT (the UPDATE
\* affected no row), Upd otherwise.
CountExp(task, countExp) ==
    IF countExp = 0 THEN [task EXCEPT !.countInsExp = task.countInsExp + 1]
    ELSE [task EXCEPT !.countUpdExp = task.countUpdExp + 1]
CountStack(task, countStack) ==
    IF countStack = 0 THEN [task EXCEPT !.countInsStack = task.countInsStack + 1]
    ELSE [task EXCEPT !.countUpdStack = task.countUpdStack + 1]

\* result.rowsAffected[0] / result.rowCount of an UPDATE ... WHERE key = @key.
rowsAffected(table, key) == IF key \in DOMAIN table THEN 1 ELSE 0

Logged(task, op, table, count) ==
    [task EXCEPT !.log = Append(task.log, Stmt(op, table, exportData[task.k].position, count))]

\* UPDATE dbo.Experiments SET SiteID = @SiteID WHERE ExpID = @ExpID
UpdateExperiment(t) ==
    /\ tasks[t].kind = "finish" /\ tasks[t].pc = "updateExperiment"
    /\ LET data == exportData[tasks[t].k]
           countExp == rowsAffected(Experiments, data.expID)
           exists == countExp # 0
       IN \/ HandlerCatch(t, ConnectionError, TRUE)
          \/ /\ exists /\ data.siteID \notin DOMAIN Sites
             /\ HandlerCatch(t, ConstraintError, FALSE)
          \/ /\ exists /\ data.siteID \in DOMAIN Sites
             /\ FinishStep(t, [CountExp(Logged(tasks[t], "UPDATE", "Experiments", countExp),
                                           countExp) EXCEPT !.pc = "updateStack"],
                           Put(Experiments, data.expID, ExpRow(data.siteID)), Stacks,
                           {<<"Experiments", data.position>>})
          \/ /\ ~exists
             /\ FinishStep(t, [Logged(tasks[t], "UPDATE", "Experiments", 0) EXCEPT
                                  !.pc = "insertExperiment"],
                           Experiments, Stacks, {})

\* INSERT INTO dbo.Experiments (ExpID, SiteID)
InsertExperiment(t) ==
    /\ tasks[t].kind = "finish" /\ tasks[t].pc = "insertExperiment"
    /\ LET data == exportData[tasks[t].k]
           fails == data.expID \in DOMAIN Experiments \/ data.siteID \notin DOMAIN Sites
       IN \/ HandlerCatch(t, ConnectionError, TRUE)
          \/ /\ fails
             /\ HandlerCatch(t, ConstraintError, FALSE)
          \/ /\ ~fails
             /\ FinishStep(t, [CountExp(Logged(tasks[t], "INSERT", "Experiments", 1), 0)
                                  EXCEPT !.pc = "updateStack"],
                           Put(Experiments, data.expID, ExpRow(data.siteID)), Stacks,
                           {<<"Experiments", data.position>>})

\* UPDATE dbo.Stacks SET ExpID = ..., Comment = @Comment WHERE StackID = @StackID
UpdateStack(t) ==
    /\ tasks[t].kind = "finish" /\ tasks[t].pc = "updateStack"
    /\ LET data == exportData[tasks[t].k]
           countStack == rowsAffected(Stacks, data.stackID)
           exists == countStack # 0
       IN \/ HandlerCatch(t, ConnectionError, TRUE)
          \/ /\ exists /\ data.expID \notin DOMAIN Experiments
             /\ HandlerCatch(t, ConstraintError, FALSE)
          \/ /\ exists /\ data.expID \in DOMAIN Experiments
             /\ FinishStep(t, NextRecord(CountStack(
                                  Logged(tasks[t], "UPDATE", "Stacks", countStack), countStack)),
                           Experiments, Put(Stacks, data.stackID, StackRowOf(data)),
                           {<<"Stacks", data.position>>})
          \/ /\ ~exists
             /\ FinishStep(t, [Logged(tasks[t], "UPDATE", "Stacks", 0) EXCEPT
                                  !.pc = "insertStack"],
                           Experiments, Stacks, {})

\* INSERT INTO dbo.Stacks (StackID, ExpID, StackDate, StackTime, Paradigm, Comment)
InsertStack(t) ==
    /\ tasks[t].kind = "finish" /\ tasks[t].pc = "insertStack"
    /\ LET data == exportData[tasks[t].k]
           fails == data.stackID \in DOMAIN Stacks \/ data.expID \notin DOMAIN Experiments
       IN \/ HandlerCatch(t, ConnectionError, TRUE)
          \/ /\ fails
             /\ HandlerCatch(t, ConstraintError, FALSE)
          \/ /\ ~fails
             /\ FinishStep(t, NextRecord(CountStack(
                                  Logged(tasks[t], "INSERT", "Stacks", 1), 0)),
                           Experiments, Put(Stacks, data.stackID, StackRowOf(data)),
                           {<<"Stacks", data.position>>})

(***************************************************************************)
(* The specification.                                                      *)
(***************************************************************************)
\* The steps with the handler slots S.
Steps(S) ==
    \/ ExportExpLogData
    \/ ExportResult
    \/ OnOpen
    \/ QueryMissingSites
    \/ QueryInvalidStacks
    \/ QueryInvalidExperiments
    \/ QueryInvalidSites
    \/ \E t \in S \cup {0} : RenderQueryProjects(t)
    \/ \E t \in S \cup {0} : RenderQueryLocations(t)
    \/ \E t \in S, input \in SiteInputs : NewSiteNext(t, input)
    \/ \E t \in S : AddNewSite(t)
    \/ \E t \in S : FinishNext(t)
    \/ FinishCancel
    \/ UserClose
    \/ \E t \in S : UpdateExperiment(t)
    \/ \E t \in S : InsertExperiment(t)
    \/ \E t \in S : UpdateStack(t)
    \/ \E t \in S : InsertStack(t)

\* One export of the document, one button handler in flight at a time.
Next == Steps(1..MaxHandlers)
Spec == Init /\ [][Next]_vars

\* The export command may be repeated on the unchanged document.
NextRerun == Next \/ ExportAgain
SpecRerun == Init /\ [][NextRerun]_vars

(***************************************************************************)
(* The export command from the document text on: extractExpLogData reads   *)
(* the text and awaits extractTableData, then exportExpLogData goes on.    *)
(***************************************************************************)
NoHeaderMsg == Msg("A table with matching headers cannot be found.")

InitExtract ==
    /\ content \in Documents
    /\ tableData = <<>>
    /\ \E store \in InitialStores :
          /\ Sites = store.sites
          /\ Experiments = store.exps
          /\ Stacks = store.stacks
    /\ pluginPc = "command"
    /\ runs = 0
    /\ exportData = <<>>
    /\ notices = {}
    /\ modal = NewModal
    /\ promise = Pending
    /\ tasks = [t \in 0..MaxTasks |-> Idle]
    /\ faults = 0
    /\ returned = {}
    /\ confirmed = FALSE
    /\ presented = <<>>
    /\ written = {}
    /\ userClosed = FALSE
    /\ batchDone = FALSE
    /\ snapshot = NoSnap
    /\ lastReport = NoReport
    /\ unhandled = FALSE
    /\ DialogsClosed

\* await this.extractTableData(fileContent, headers)
ExtractTableData ==
    /\ pluginPc = "command"
    /\ tableData' = TableOf(extractTableData(content, getExpLogTableHeadersV2))
    /\ notices' = IF headerMatch(content, getExpLogTableHeadersV2) = 0
                  THEN {NoHeaderMsg[1]} ELSE {}
    /\ pluginPc' = "start"
    /\ UNCHANGED <<dialogs, content, db, runs, exportData, modal, promise, tasks, faults, hist>>

NextExtract == ExtractTableData \/ Next
SpecExtract == InitExtract /\ [][NextExtract]_vars

(***************************************************************************)
(* The export command on a table whose rows are typed freely: every cell   *)
(* is blank, a text that coerces, or a text that does not.                 *)
(***************************************************************************)
RecordRows ==
    {[RawRow(d, t, s, e, si, c) EXCEPT !.Paradigm = p] :
        d \in {"", "2024-05-01", "junk"}, t \in {"", "10:00", "junk"},
        s \in {Chars(w) : w \in IdWords \ {"2"}},
        e \in {Chars(w) : w \in IdWords \ {"2"}},
        si \in {Chars(w) : w \in IdWords \ {"2"}},
        p \in {"", "p"}, c \in {"", "c"}}

InitRecords ==
    /\ \E row \in RecordRows : content = DocumentOf(<<row>>)
    /\ tableData = TableOf(extractTableData(content, getExpLogTableHeadersV2))
    /\ \E store \in InitialStores :
          /\ Sites = store.sites
          /\ Experiments = store.exps
          /\ Stacks = store.stacks
    /\ pluginPc = "start"
    /\ runs = 0
    /\ exportData = <<>>
    /\ notices = {}
    /\ modal = NewModal
    /\ promise = Pending
    /\ tasks = [t \in 0..MaxTasks |-> Idle]
    /\ faults = 0
    /\ returned = {}
    /\ confirmed = FALSE
    /\ presented = <<>>
    /\ written = {}
    /\ userClosed = FALSE
    /\ batchDone = FALSE
    /\ snapshot = NoSnap
    /\ lastReport = NoReport
    /\ unhandled = FALSE
    /\ DialogsClosed

SpecRecords == InitRecords /\ [][Next]_vars

(***************************************************************************)
(* The export command on a store with soft-deleted Sites rows              *)
(* (DataDeleted set).                                                      *)
(***************************************************************************)
DeletedStores ==
    {[store EXCEPT !.sites =
         [si \in DOMAIN store.sites |->
            [store.sites[si] EXCEPT !.DataDeleted = (si \in deleted)]]] :
        store \in InitialStores, deleted \in SUBSET IDs} \ InitialStores

InitDeleted ==
    /\ \E table \in Tables : content = DocumentOf(table)
    /\ tableData = TableOf(extractTableData(content, getExpLogTableHeadersV2))
    /\ \E store \in DeletedStores :
          /\ Sites = store.sites
          /\ Experiments = store.exps
          /\ Stacks = store.stacks
    /\ pluginPc = "start"
    /\ runs = 0
    /\ exportData = <<>>
    /\ notices = {}
    /\ modal = NewModal
    /\ promise = Pending
    /\ tasks = [t \in 0..MaxTasks |-> Idle]
    /\ faults = 0
    /\ returned = {}
    /\ confirmed = FALSE
    /\ presented = <<>>
    /\ written = {}
    /\ userClosed = FALSE
    /\ batchDone = FALSE
    /\ snapshot = NoSnap
    /\ lastReport = NoReport
    /\ unhandled = FALSE
    /\ DialogsClosed

SpecDeleted == InitDeleted /\ [][Next]_vars

(***************************************************************************)
(* The create-table command, followed by the extraction of the export      *)
(* command, which reads the table with the current schema.                 *)
(***************************************************************************)
InitAdapt ==
    /\ content \in OldDocuments \cup {DocumentOf(<<row>>) : row \in TypedRows}
                                \cup {<<TextLine>>}
    /\ tableData = <<>>
    /\ \E store \in InitialStores :
          /\ Sites = store.sites
          /\ Experiments = store.exps
          /\ Stacks = store.stacks
    /\ pluginPc = "create"
    /\ runs = 0
    /\ exportData = <<>>
    /\ notices = {}
    /\ modal = NewModal
    /\ promise = Pending
    /\ tasks = [t \in 0..MaxTasks |-> Idle]
    /\ faults = 0
    /\ returned = {}
    /\ confirmed = FALSE
    /\ presented = <<>>
    /\ written = {}
    /\ userClosed = FALSE
    /\ batchDone = FALSE
    /\ snapshot = NoSnap
    /\ lastReport = NoReport
    /\ unhandled = FALSE
    /\ DialogsClosed

\* createExpLogTable on a document that has an AnimalID.
CreateTable ==
    /\ IF matchingTableExist(content, getExpLogTableHeadersV2)
       THEN /\ content' = content
            /\ notices' = {Line("A table with matching headers already exists in this file.", <<>>)}
       ELSE IF matchingTableExist(content, getExpLogTableHeaders)
       THEN /\ content' = adaptTable(content, getExpLogTableHeaders, getExpLogTableHeadersV2)
            /\ notices' = {Line("Existing table updated to match new schema (with Paradigm).", <<>>)}
       ELSE /\ content' = insertTableIntoFile(content,
                              generateTableWithHeaders(getExpLogTableHeadersV2))
            /\ notices' = {}
    /\ pluginPc' = "command"
    /\ UNCHANGED <<dialogs, tableData, db, runs, exportData, modal, promise, tasks, faults, hist>>

CreateExpLogTable ==
    /\ pluginPc = "create"
    /\ CreateTable

NextAdapt == CreateExpLogTable \/ ExtractTableData
SpecAdapt == InitAdapt /\ [][NextAdapt]_vars

(***************************************************************************)
(* The create-table command invoked again and again on the document it     *)
(* has left.  The documents include one whose old-schema header row is     *)
(* broken over two lines.                                                  *)
(***************************************************************************)
SplitHeaderDocument ==
    <<SubSeq(PipeLine(getExpLogTableHeaders), 1, 6),
      SubSeq(PipeLine(getExpLogTableHeaders), 7, 13)>>

InitCreate ==
    /\ content \in OldDocuments \cup {DocumentOf(<<row>>) : row \in TypedRows}
                                \cup {<<TextLine>>, <<>>, SplitHeaderDocument}
    /\ tableData = <<>>
    /\ \E store \in InitialStores :
          /\ Sites = store.sites
          /\ Experiments = store.exps
          /\ Stacks = store.stacks
    /\ pluginPc = "create"
    /\ runs = 0
    /\ exportData = <<>>
    /\ notices = {}
    /\ modal = NewModal
    /\ promise = Pending
    /\ tasks = [t \in 0..MaxTasks |-> Idle]
    /\ faults = 0
    /\ returned = {}
    /\ confirmed = FALSE
    /\ presented = <<>>
    /\ written = {}
    /\ userClosed = FALSE
    /\ batchDone = FALSE
    /\ snapshot = NoSnap
    /\ lastReport = NoReport
    /\ unhandled = FALSE
    /\ DialogsClosed

\* The command invoked once more.
CreateExpLogTableAgain ==
    /\ pluginPc = "command"
    /\ CreateTable

NextCreate == CreateExpLogTable \/ CreateExpLogTableAgain \/ ExtractTableData
SpecCreate == InitCreate /\ [][NextCreate]_vars

(***************************************************************************)
(* One export with the buttons pressed again while a handler is suspended  *)
(* at a storage call: the buttons stay enabled, so two handlers may be in  *)
(* flight.  The table has complete rows only, the store at most one row.   *)
(***************************************************************************)
InitTwo ==
    /\ \E table \in UNION {[1..n -> GoodRows] : n \in 1..MaxRows} :
          content = DocumentOf(table)
    /\ tableData = TableOf(extractTableData(content, getExpLogTableHeadersV2))
    /\ \E store \in InitialStores :
          /\ Cardinality(DOMAIN store.sites) <= 1
          /\ store.exps = <<>> /\ store.stacks = <<>>
          /\ Sites = store.sites
          /\ Experiments = store.exps
          /\ Stacks = store.stacks
    /\ pluginPc = "start"
    /\ runs = 0
    /\ exportData = <<>>
    /\ notices = {}
    /\ modal = NewModal
    /\ promise = Pending
    /\ tasks = [t \in 0..MaxTasks |-> Idle]
    /\ faults = 0
    /\ returned = {}
    /\ confirmed = FALSE
    /\ presented = <<>>
    /\ written = {}
    /\ userClosed = FALSE
    /\ batchDone = FALSE
    /\ snapshot = NoSnap
    /\ lastReport = NoReport
    /\ unhandled = FALSE
    /\ DialogsClosed

NextTwo == Steps(1..MaxTasks)
SpecTwo == InitTwo /\ [][NextTwo]_vars

(***************************************************************************)
(* QueryAnimalModal on its own: the modal is opened, the user works the    *)
(* two dropdowns while the queries are in flight, and presses Select or    *)
(* closes the window.                                                      *)
(***************************************************************************)
InitAnimal ==
    /\ content = <<TextLine>>
    /\ tableData = <<>>
    /\ Sites = <<>> /\ Experiments = <<>> /\ Stacks = <<>>
    /\ pluginPc = "queryAnimal"
    /\ runs = 0
    /\ exportData = <<>>
    /\ notices = {}
    /\ modal = NewModal
    /\ promise = Pending
    /\ tasks = [t \in 0..MaxTasks |-> Idle]
    /\ faults = 0
    /\ returned = {}
    /\ confirmed = FALSE
    /\ presented = <<>>
    /\ written = {}
    /\ userClosed = FALSE
    /\ batchDone = FALSE
    /\ snapshot = NoSnap
    /\ lastReport = NoReport
    /\ unhandled = FALSE
    /\ DialogsClosed

AnimalModalOpen == queryAnimalModal.pc \in {"queryPIs", "ready"}

\* openWithPromise and onOpen up to the await of queryPIs.
OpenWithPromise ==
    /\ queryAnimalModal.pc = "closed"
    /\ queryAnimalModal' = [queryAnimalModal EXCEPT !.pc = "queryPIs"]
    /\ UNCHANGED <<content, tableData, db, pluginPc, runs, exportData, notices, modal,
                   promise, tasks, faults, hist, plugin>>

\* queryPIs returns or throws; then the change handler of the PI dropdown is set.
QueryPIs ==
    /\ queryAnimalModal.pc = "queryPIs"
    /\ \/ /\ queryAnimalModal' = [queryAnimalModal EXCEPT !.pc = "ready",
                                                          !.piOptions = queryPIs]
          /\ UNCHANGED notices
       \/ /\ queryAnimalModal' = [queryAnimalModal EXCEPT !.pc = "ready",
                                                          !.piOptions = {"error"}]
          /\ notices' = Range(ConnectionError)
    /\ UNCHANGED <<content, tableData, db, pluginPc, runs, exportData, modal, promise,
                   tasks, faults, hist, plugin>>

\* The user picks another entry of the PI dropdown: the handler calls
\* queryAnimals and is suspended, or, for "Please select", resets the Animal
\* dropdown.
PIChanged(value) ==
    /\ queryAnimalModal.pc = "ready"
    /\ value \in {""} \cup queryAnimalModal.piOptions
    /\ value # queryAnimalModal.piValue
    /\ queryAnimalModal' =
          IF value # ""
          THEN [queryAnimalModal EXCEPT !.piValue = value,
                                        !.pending = @ \cup {value}]
          ELSE [queryAnimalModal EXCEPT !.piValue = value,
                                        !.animalOptions = {}, !.animalValue = ""]
    /\ UNCHANGED <<content, tableData, db, pluginPc, runs, exportData, notices, modal,
                   promise, tasks, faults, hist, plugin>>

\* A queryAnimals call returns: the Animal dropdown is emptied and filled with
\* "Please select" and the animals of that call's PI.  A call that throws
\* rejects the promise of the handler, which nothing awaits.
QueryAnimals(pi) ==
    /\ pi \in queryAnimalModal.pending
    /\ \/ /\ queryAnimalModal' = [queryAnimalModal EXCEPT !.pending = @ \ {pi},
                                                          !.animalOptions = queryAnimals(pi),
                                                          !.animalValue = ""]
          /\ UNCHANGED unhandled
       \/ /\ queryAnimalModal' = [queryAnimalModal EXCEPT !.pending = @ \ {pi}]
          /\ unhandled' = TRUE
    /\ UNCHANGED <<content, tableData, db, pluginPc, runs, exportData, notices, modal,
                   promise, tasks, faults, returned, confirmed, presented, written,
                   userClosed, batchDone, snapshot, lastReport, plugin>>

\* The user picks another entry of the Animal dropdown.
AnimalChanged(value) ==
    /\ AnimalModalOpen
    /\ value \in {""} \cup queryAnimalModal.animalOptions
    /\ value # queryAnimalModal.animalValue
    /\ queryAnimalModal' =
          [queryAnimalModal EXCEPT !.animalValue = value,
                                   !.result = IF value # "" THEN value ELSE NullAnimal]
    /\ UNCHANGED <<content, tableData, db, pluginPc, runs, exportData, notices, modal,
                   promise, tasks, faults, hist, plugin>>

\* QueryAnimalModal.onClose: the promise is resolved with _result.
onCloseAnimalModal(m) ==
    [m EXCEPT !.pc = "done", !.resolved = TRUE, !.value = m.result]

\* The Select button.
SelectClicked ==
    /\ AnimalModalOpen
    /\ IF queryAnimalModal.result = NullAnimal
       THEN /\ notices' = {Line("Please select an animal before proceeding, or cancel by closing this window.", <<>>)}
            /\ UNCHANGED queryAnimalModal
       ELSE /\ queryAnimalModal' = onCloseAnimalModal(queryAnimalModal)
            /\ UNCHANGED notices
    /\ UNCHANGED <<content, tableData, db, pluginPc, runs, exportData, modal, promise,
                   tasks, faults, hist, plugin>>

\* The user closes the window.
AnimalModalClosed ==
    /\ AnimalModalOpen
    /\ queryAnimalModal' = onCloseAnimalModal(queryAnimalModal)
    /\ UNCHANGED <<content, tableData, db, pluginPc, runs, exportData, notices, modal,
                   promise, tasks, faults, hist, plugin>>

NextAnimal ==
    \/ OpenWithPromise
    \/ QueryPIs
    \/ \E value \in {"", "error"} \cup queryPIs : PIChanged(value)
    \/ \E pi \in {"error"} \cup queryPIs : QueryAnimals(pi)
    \/ \E value \in {""} \cup Animals : AnimalChanged(value)
    \/ SelectClicked
    \/ AnimalModalClosed
SpecAnimal == InitAnimal /\ [][NextAnimal]_vars

(***************************************************************************)
(* The settings tab: every keystroke in a field changes _settings and      *)
(* calls saveSettings, which is suspended at the keytar store and at       *)
(* saveData; the calls of successive keystrokes overlap.                   *)
(***************************************************************************)
InitSettings ==
    /\ content = <<TextLine>>
    /\ tableData = <<>>
    /\ Sites = <<>> /\ Experiments = <<>> /\ Stacks = <<>>
    /\ pluginPc = "settings"
    /\ runs = 0
    /\ exportData = <<>>
    /\ notices = {}
    /\ modal = NewModal
    /\ promise = Pending
    /\ tasks = [t \in 0..MaxTasks |-> Idle]
    /\ faults = 0
    /\ returned = {}
    /\ confirmed = FALSE
    /\ presented = <<>>
    /\ written = {}
    /\ userClosed = FALSE
    /\ batchDone = FALSE
    /\ snapshot = NoSnap
    /\ lastReport = NoReport
    /\ unhandled = FALSE
    /\ queryAnimalModal = NewQueryAnimalModal
    /\ \E keytar \in BOOLEAN, dbUser \in DBUsers, password \in Passwords :
          /\ (~keytar \/ dbUser = "") => password = ""
          /\ plugin = LoadedPlugin(keytar, dbUser, password)

NoPasswordWarning ==
    Line("Database Password has not been saved! It is only persisted together with the Database User.", <<>>)
IncompleteNotice ==
    Line("DB Config is incomplete. Ensure all required settings are provided.", <<>>)
ErrorNotice == Line("An error occurred", <<>>)

\* saveSettings up to its first await, as call c: with the keytar store and a
\* password it awaits savePassword, or, without a user, warns, blanks the
\* password and calls saveData; otherwise it calls saveData at once.
saveSettings(p, c) ==
    LET password == p.dbPassword
    IN IF p.keytar /\ password # ""
       THEN IF p.dbUser # ""
            THEN [p EXCEPT !.calls[c] = [pc |-> "savePassword", password |-> password]]
            ELSE [p EXCEPT !.dbPassword = "", !.saved = @ \cup {""},
                           !.calls[c] = [pc |-> "saveData", password |-> password]]
       ELSE [p EXCEPT !.saved = @ \cup {password},
                      !.calls[c] = [pc |-> "saveData", password |-> password]]

updateDBConfig(p) == [p EXCEPT !.dbConfigPassword = p.dbPassword]

SaveStarted(p, c) ==
    /\ plugin' = saveSettings(p, c)
    /\ notices' = IF p.keytar /\ p.dbPassword # "" /\ p.dbUser = ""
                  THEN {NoPasswordWarning} ELSE notices
    /\ UNCHANGED <<content, tableData, db, pluginPc, runs, exportData, modal, promise,
                   tasks, faults, hist, queryAnimalModal>>

\* A keystroke in the password field.
PasswordChanged(c, value) ==
    /\ plugin.calls[c] = NoSave
    /\ value # plugin.entered
    /\ SaveStarted([plugin EXCEPT !.dbPassword = value, !.entered = value], c)

\* A keystroke in another field (the server, say).
ServerChanged(c) ==
    /\ plugin.calls[c] = NoSave
    /\ SaveStarted(plugin, c)

\* savePassword returns: the password of _settings is blanked, saveData called.
SavePassword(c) ==
    /\ plugin.calls[c].pc = "savePassword"
    /\ \/ /\ plugin' = [plugin EXCEPT !.keychain = plugin.calls[c].password,
                                        !.dbPassword = "", !.saved = @ \cup {""},
                                        !.calls[c].pc = "saveData"]
          /\ UNCHANGED notices
       \/ /\ plugin' = [plugin EXCEPT !.calls[c] = NoSave, !.threw = TRUE]
          /\ notices' = {ErrorNotice}
    /\ UNCHANGED <<content, tableData, db, pluginPc, runs, exportData, modal, promise,
                   tasks, faults, hist, queryAnimalModal>>

\* saveData returns: the password the call started with is put back into
\* _settings, updateDBConfig copies the settings.
SaveData(c) ==
    /\ plugin.calls[c].pc = "saveData"
    /\ LET password == plugin.calls[c].password
           restored == IF plugin.keytar /\ password # ""
                       THEN [plugin EXCEPT !.dbPassword = password]
                       ELSE plugin
           after == [updateDBConfig(restored) EXCEPT !.calls[c] = NoSave]
       IN \/ /\ plugin' = after
             /\ notices' = IF after.dbUser = "" \/ after.dbConfigPassword = ""
                           THEN {IncompleteNotice} ELSE notices
          \/ /\ plugin' = [plugin EXCEPT !.calls[c] = NoSave, !.threw = TRUE]
             /\ notices' = {ErrorNotice}
    /\ UNCHANGED <<content, tableData, db, pluginPc, runs, exportData, modal, promise,
                   tasks, faults, hist, queryAnimalModal>>

NextSettings ==
    \/ \E c \in 1..MaxSaves, value \in Passwords : PasswordChanged(c, value)
    \/ \E c \in 1..MaxSaves : ServerChanged(c)
    \/ \E c \in 1..MaxSaves : SavePassword(c)
    \/ \E c \in 1..MaxSaves : SaveData(c)
SpecSettings == InitSettings /\ [][NextSettings]_vars

(***************************************************************************)
(* One export under the scheduling of the runtime: a storage call that is  *)
(* awaited returns or throws, and the continuation of an await runs.  What *)
(* the user does is left open.                                             *)
(***************************************************************************)
RuntimeStep ==
    \/ ExportExpLogData
    \/ ExportResult
    \/ OnOpen
    \/ QueryMissingSites
    \/ QueryInvalidStacks
    \/ QueryInvalidExperiments
    \/ QueryInvalidSites
    \/ \E t \in 0..MaxHandlers : RenderQueryProjects(t)
    \/ \E t \in 0..MaxHandlers : RenderQueryLocations(t)
    \/ \E t \in 1..MaxHandlers : AddNewSite(t)
    \/ \E t \in 1..MaxHandlers : UpdateExperiment(t)
    \/ \E t \in 1..MaxHandlers : InsertExperiment(t)
    \/ \E t \in 1..MaxHandlers : UpdateStack(t)
    \/ \E t \in 1..MaxHandlers : InsertStack(t)

SpecLive == Init /\ [][Next]_vars /\ WF_vars(RuntimeStep)



(***************************************************************************)
(* Properties.                                                             *)
(***************************************************************************)
ValidationQueries ==
    {"queryMissingSites", "queryInvalidStacksForAnimal",
     "queryInvalidExperimentsForAnimal", "queryInvalidSitesForAnimal"}
\* The missing-site query and the three ownership queries have all returned.
ValidationReturned == returned = ValidationQueries
\* The Experiment and Stack writes of this run.
WroteExpStack == {w \in written : w[1] \in {"Experiments", "Stacks"}}
\* A button handler has a storage statement in flight.
HandlerRunning == \E t \in 1..MaxTasks : tasks[t].kind \in {"newsite", "finish"}
Cancelled == promise.resolved /\ promise.value = CancelMsg

\* C1: once validation passed, the wizard is on the NewSite step exactly while a
\* site of the new-site list is still to be created, and on the Finish step
\* otherwise; the NewSite pages shown so far are the leading entries of the
\* list, each once and in list order; the Finish step is reached only after
\* every listed site was shown and created.
C1_NewSiteThenFinish ==
    LET missing == modal.missingSitesIDs
        index == modal.missingSiteIDsIndex
    IN /\ modal.currentStep # 0 =>
              /\ ValidationReturned
              /\ modal.currentStep = (IF index < Len(missing) THEN 1 ELSE 2)
       /\ Len(presented) <= Len(missing)
       /\ presented = SubSeq(missing, 1, Len(presented))
       /\ modal.page.kind = "newsite" =>
              /\ modal.currentStep = 1
              /\ Len(presented) = index + 1
              /\ modal.page.siteID = missing[index + 1]
       /\ (modal.currentStep = 2 \/ modal.page.kind = "finish") =>
              /\ index = Len(missing)
              /\ presented = missing
              /\ \A i \in 1..Len(missing) : <<"Sites", missing[i]>> \in written

\* Two new sites were created one after the other and the Finish page is shown.
C1_Witness ==
    /\ modal.isOpen /\ modal.page.kind = "finish"
    /\ Len(modal.missingSitesIDs) = 2
    /\ presented = modal.missingSitesIDs


\* C2: no storage write is issued, neither the site insert of the NewSite step
\* nor a statement of the Finish batch, before the missing-site query and the
\* three ownership queries have all returned and onOpen has left validation.
C2_ValidationBeforeWrites ==
    (written # {} \/ HandlerRunning \/ confirmed) =>
        /\ ValidationReturned
        /\ modal.currentStep >= 1
        /\ tasks[0].kind = "open"
        /\ tasks[0].pc \in {"queryProjects", "queryLocations", "done"}

\* A site insert and the batch have written after the four queries returned.
C2_Witness ==
    /\ ValidationReturned
    /\ \E s \in IDs : <<"Sites", s>> \in written
    /\ \E p \in 1..MaxRows : <<"Stacks", p>> \in written


\* The owner of a stored row, along Stacks -> Experiments -> Sites -> AnimalID.
OwnerOfSite(si) == Sites[si].AnimalID
OwnerOfExp(e) == OwnerOfSite(Experiments[e].SiteID)
OwnerOfStack(st) == OwnerOfExp(Stacks[st].ExpID)
\* The ids of the batch that exist in the store under another animal.
BatchIDs(field) == {exportData[i][field] : i \in 1..Len(exportData)}
ForeignStacks == {st \in BatchIDs("stackID") \cap DOMAIN Stacks : OwnerOfStack(st) # AnimalID}
ForeignExps == {e \in BatchIDs("expID") \cap DOMAIN Experiments : OwnerOfExp(e) # AnimalID}
ForeignSites == {si \in BatchIDs("siteID") \cap DOMAIN Sites : OwnerOfSite(si) # AnimalID}
Conflict == ForeignStacks # {} \/ ForeignExps # {} \/ ForeignSites # {}
\* The lines of a message that list ids of one entity type, as (type, id set).
GroupLines(lines) ==
    {<<l.text, Range(l.ids)>> : l \in {x \in lines : x.text \in {"StackIDs", "ExpIDs", "SiteIDs"}}}
ExpectedGroupLines ==
    {g \in {<<"StackIDs", ForeignStacks>>, <<"ExpIDs", ForeignExps>>,
            <<"SiteIDs", ForeignSites>>} : g[2] # {}}

\* C3: when a Stack, Experiment or Site id of the batch exists in the store
\* under another animal, nothing is ever written; once the validation queries
\* have returned the wizard is closed with a non-null result handed to the
\* caller, and (unless the user closed the wizard first) that result lists
\* exactly the foreign ids, one line per entity type that has any.
C3_ForeignOwnerBlocks ==
    Conflict =>
        /\ written = {} /\ ~HandlerRunning /\ ~confirmed
        /\ modal.currentStep = 0
        /\ ValidationReturned =>
              /\ ~modal.isOpen
              /\ promise.resolved /\ promise.value # Null
              /\ ~userClosed =>
                    /\ promise.value[1].text =
                          "Some StackIDs, ExpIDs or SiteIDs are belonging to different animal."
                    /\ GroupLines(Range(promise.value)) = ExpectedGroupLines
        /\ (pluginPc = "done" /\ ValidationReturned /\ ~userClosed) =>
              GroupLines(notices) = ExpectedGroupLines

\* The batch names a foreign stack and a foreign site; the caller has shown the
\* message with both lines.
C3_Witness ==
    /\ ForeignStacks # {} /\ ForeignSites # {}
    /\ ValidationReturned /\ ~userClosed
    /\ pluginPc = "done"
    /\ Cardinality(GroupLines(notices)) >= 2


\* The site ids of the batch that were not in the store when the run began.
NewSites == {si \in BatchIDs("siteID") : si \notin DOMAIN Sites \/ <<"Sites", si>> \in written}
\* A record of the batch carries N as StackID, ExpID and SiteID.
Matched(N) ==
    \E i \in 1..Len(exportData) :
       exportData[i].stackID = N /\ exportData[i].expID = N /\ exportData[i].siteID = N
UnmatchedSites == {N \in NewSites : ~Matched(N)}
\* The id sets of the lines of a message that name unmatched new sites.
NewSiteLines(lines) ==
    {Range(l.ids) : l \in {x \in lines :
        x.text = "Following new SiteIDs don't have matching StackID / ExpID"}}

\* C4: a new site N of the batch without a record whose StackID, ExpID and
\* SiteID are all N blocks the export: nothing is written and, once the
\* validation queries have returned, the wizard is closed with a result that
\* names exactly those N.  A batch whose new sites all have such a record (and
\* that has no foreign id) passes validation.
C4_NewSiteCompleteness ==
    /\ UnmatchedSites # {} =>
          /\ written = {} /\ ~HandlerRunning /\ ~confirmed
          /\ modal.currentStep = 0
          /\ ValidationReturned =>
                /\ ~modal.isOpen
                /\ promise.resolved /\ promise.value # Null
                /\ ~userClosed => NewSiteLines(Range(promise.value)) = {UnmatchedSites}
    /\ (UnmatchedSites = {} /\ ValidationReturned) =>
          /\ NewSiteLines(Range(promise.value)) = {}
          /\ ~Conflict => modal.currentStep >= 1

\* Of two new sites one has its record and one has not; the caller has shown
\* the message naming the one that has not.
C4_Witness ==
    /\ Cardinality(NewSites) = 2 /\ Cardinality(UnmatchedSites) = 1
    /\ ValidationReturned /\ ~userClosed
    /\ pluginPc = "done"
    /\ NewSiteLines(notices) = {UnmatchedSites}


\* The positions of the records of a batch that satisfy P.
PositionsOf(data, P(_)) == {data[i].position : i \in {j \in 1..Len(data) : P(data[j])}}
NotComplete(r) == ~isComplete(r)
\* The wizard was constructed and opened in this run.
WizardOpened == tasks[0].kind = "open"
\* The row lists of the notices with the given text.
RowsOf(text) == {Range(l.ids) : l \in {x \in notices : x.text = text}}
\* Timestamp, StackID, ExpID and SiteID are all there.
AllPresent(r) ==
    r.logDateTime # NullDate /\ r.stackID # NullNum /\ r.expID # NullNum
    /\ r.siteID # NullNum

\* C5: with an invalid record in the extracted batch the export ends with the
\* invalid-data notice listing exactly the positions of the invalid records;
\* with none invalid but an incomplete one it ends with the incomplete-data
\* notice listing exactly the incomplete positions; in both cases the wizard
\* is not opened and nothing is written.  Every record of a batch that
\* reaches the wizard has timestamp, StackID, ExpID and SiteID.
C5_GateBeforeWizard ==
    LET data == extractExpLogData(tableData)
        invalid == PositionsOf(data, isInvalid)
        incomplete == PositionsOf(data, NotComplete)
    IN pluginPc # "start" =>
          /\ invalid # {} =>
                /\ pluginPc = "done" /\ ~WizardOpened /\ ~modal.isOpen /\ written = {}
                /\ notices = {Line("There is invalid data!", invalidRows(data))}
                /\ RowsOf("There is invalid data!") = {invalid}
          /\ (invalid = {} /\ incomplete # {}) =>
                /\ pluginPc = "done" /\ ~WizardOpened /\ ~modal.isOpen /\ written = {}
                /\ notices = {Line("There is incomplete data!", incompleteRows(data))}
                /\ RowsOf("There is incomplete data!") = {incomplete}
          /\ WizardOpened =>
                /\ invalid = {} /\ incomplete = {}
                /\ exportData = data
                /\ \A i \in 1..Len(exportData) : AllPresent(exportData[i])

\* A table of a good row and a row with an id that is no number: the notice
\* lists row 2 alone.
C5_Witness ==
    /\ pluginPc = "done"
    /\ Len(extractExpLogData(tableData)) = 2
    /\ RowsOf("There is invalid data!") = {{2}}


IsUpdate(s) == s.op = "UPDATE"
\* The statement a Finish handler has in flight.
InFlight(task) ==
    Stmt(IF task.pc \in {"updateExperiment", "updateStack"} THEN "UPDATE" ELSE "INSERT",
         IF task.pc \in {"updateExperiment", "insertExperiment"} THEN "Experiments"
         ELSE "Stacks",
         exportData[task.k].position, 1)
\* The statements of a batch follow the write order: the UPDATEs are those of
\* the records in batch order, Experiments before Stacks for each record; an
\* INSERT follows directly the UPDATE of the same row that affected no row,
\* and nothing else follows such an UPDATE.
WriteOrder(log, complete) ==
    LET upd == SelectSeq(log, IsUpdate)
        n == Len(log)
    IN /\ Len(upd) <= 2 * Len(exportData)
       /\ complete => Len(upd) = 2 * Len(exportData)
       /\ \A j \in 1..Len(upd) :
             /\ upd[j].table = (IF j % 2 = 1 THEN "Experiments" ELSE "Stacks")
             /\ upd[j].position = exportData[(j + 1) \div 2].position
       /\ \A j \in 1..n :
             /\ log[j].op = "INSERT" =>
                   j > 1 /\ log[j - 1] = Stmt("UPDATE", log[j].table, log[j].position, 0)
             /\ (IsUpdate(log[j]) /\ log[j].count = 0) =>
                   IF j < n
                   THEN log[j + 1] = Stmt("INSERT", log[j].table, log[j].position, 1)
                   ELSE ~complete

\* C6: the Finish batch issues its statements in batch order, for each record
\* the Experiment before the Stack, each entity as an UPDATE followed by an
\* INSERT exactly when the UPDATE affected no row.
C6_BatchWriteOrder ==
    /\ \A t \in 1..MaxTasks :
          tasks[t].kind = "finish" =>
             /\ tasks[t].k \in 1..Len(exportData)
             /\ WriteOrder(Append(tasks[t].log, InFlight(tasks[t])), FALSE)
    /\ (batchDone /\ lastReport # NoReport /\ lastReport.run = runs) =>
          WriteOrder(lastReport.log, TRUE)

\* A batch of two records ran to its end: the first record's Experiment and
\* Stack were inserted, the second updated that Experiment and inserted its Stack.
C6_Witness ==
    /\ batchDone /\ lastReport # NoReport
    /\ Len(lastReport.log) = 7
    /\ lastReport.log[5] = Stmt("UPDATE", "Experiments", 2, 1)


\* C7: a Finish batch that runs alone after an earlier batch of the same
\* document ran to its end reports no inserted Experiment and no inserted
\* Stack, and leaves the Experiments and Stacks tables as the first batch left
\* them.
C7_SecondRunIdempotent ==
    (lastReport # NoReport /\ lastReport.second /\ lastReport.alone) =>
        /\ snapshot # NoSnap
        /\ lastReport.countInsExp = 0 /\ lastReport.countInsStack = 0
        /\ lastReport.countUpdExp = lastReport.countUpdStack
        /\ lastReport.exps = snapshot.exps
        /\ lastReport.stacks = snapshot.stacks

\* The first batch inserted rows; the batch of the second export of the same
\* two records ran to its end.
C7_Witness ==
    /\ lastReport # NoReport /\ lastReport.second /\ lastReport.alone
    /\ lastReport.run = 2 /\ batchDone
    /\ snapshot.inserted > 0
    /\ lastReport.countUpdStack = 2


\* C8 as stated: whenever the wizard ends with the cancellation outcome, no
\* Experiment and no Stack row has been written by the run.
C8_CancelledWritesNoExpStack == Cancelled => WroteExpStack = {}

\* C8, amended: whenever the wizard ends with the cancellation outcome and no
\* Finish was confirmed on the Finish step before, no Experiment and no Stack
\* row has been written by the run; the Site rows the NewSite step inserted
\* stay in the store under the document's animal.
C8_CancelledBeforeFinishWritesNoExpStack ==
    Cancelled =>
        /\ ~(confirmed /\ modal.currentStep = 2) => WroteExpStack = {}
        /\ \A s \in IDs :
              <<"Sites", s>> \in written => s \in DOMAIN Sites /\ Sites[s].AnimalID = AnimalID

\* The user created a new site and then cancelled without confirming Finish:
\* the caller got the cancellation text, the site is stored.
C8_Witness ==
    /\ Cancelled /\ ~confirmed /\ pluginPc = "done"
    /\ \E s \in IDs : <<"Sites", s>> \in written

\* C9 as stated: once the cancellation is observed, no further statement is
\* issued: no handler moves on to a site insert, an Experiment upsert or a
\* Stack upsert.
C9_NoWriteAfterCancel ==
    [][Cancelled =>
          \A t \in 1..MaxTasks :
             tasks'[t] # tasks[t] => tasks'[t].kind \notin {"newsite", "finish"}]_vars

\* C10 as stated: once everything has come to rest, the result handed to the
\* caller is null exactly when a Finish batch ran to its end, and is a
\* non-empty text otherwise.
C10_NullIffBatchDone ==
    (promise.resolved /\ Quiescent) =>
        /\ promise.value = Null <=> batchDone
        /\ ~batchDone => Len(promise.value) > 0


Ascending(s) == \A i, j \in 1..Len(s) : i < j => s[i] < s[j]

\* C11 as stated: the NewSite pages are shown in ascending order of site id.
C11_PresentedAscending == Ascending(presented)


ErrorNotices == {Range(ConnectionError), Range(ConstraintError)}
\* The step the wizard is on when index sites of the list have been created.
StepAt(index) == IF index < Len(modal.missingSitesIDs) THEN 1 ELSE 2

\* C12: when the site insert of a NewSite handler fails, the handler ends
\* with an error notice and without issuing the insert again, and the wizard
\* is unchanged: same site index, same step, and (if still open) the page of
\* the same site, on which Next may be pressed again.  The site index
\* advances, by one, only in a step in which the insert of the current site
\* succeeded, and the step becomes Finish only when that was the last entry.
C12_SiteFailureStays ==
    [][/\ \A t \in 1..MaxTasks :
             (tasks[t].kind = "newsite" /\ tasks'[t] # tasks[t] /\ written' = written) =>
                /\ tasks'[t] = Idle
                /\ Sites' = Sites
                /\ modal' = modal
                /\ notices' \in ErrorNotices
                /\ modal.isOpen =>
                      /\ modal'.page.kind = "newsite"
                      /\ modal'.page.siteID = tasks[t].siteID
       /\ (modal'.missingSiteIDsIndex # modal.missingSiteIDsIndex
           \/ (modal'.currentStep > modal.currentStep /\ modal.currentStep = 1)) =>
             /\ modal.missingSiteIDsIndex < Len(modal.missingSitesIDs)
             /\ LET site == modal.missingSitesIDs[modal.missingSiteIDsIndex + 1]
                IN /\ modal'.missingSiteIDsIndex = modal.missingSiteIDsIndex + 1
                   /\ modal'.currentStep = StepAt(modal'.missingSiteIDsIndex)
                   /\ site \notin DOMAIN Sites /\ site \in DOMAIN Sites'
                   /\ written' = written \cup {<<"Sites", site>>}]_vars

\* The insert of the first new site failed on a constraint: the error is
\* shown, the page of that site is still open and no site was created.
C12_Witness ==
    /\ modal.isOpen /\ modal.page.kind = "newsite" /\ modal.missingSiteIDsIndex = 0
    /\ notices = Range(ConstraintError)
    /\ ~HandlerRunning /\ written = {}


\* The rows a write of the batch for the record at a position leaves behind.
Committed(w) ==
    LET r == CHOOSE x \in Range(exportData) : x.position = w[2]
    IN CASE w[1] = "Experiments" -> r.expID \in DOMAIN Experiments
         [] w[1] = "Stacks" -> r.stackID \in DOMAIN Stacks
         [] OTHER -> w[2] \in DOMAIN Sites

\* A step of a Finish handler that neither logged a statement as done nor
\* ended the batch: the statement in flight threw.
BatchThrew(t) ==
    /\ tasks[t].kind = "finish" /\ tasks'[t] # tasks[t]
    /\ lastReport' = lastReport
    /\ tasks'[t].kind = "finish" =>
          /\ tasks'[t].log = tasks[t].log
          /\ <<tasks'[t].pc, tasks'[t].k>> # <<tasks[t].pc, tasks[t].k>>

\* C13: when a statement of the Finish batch throws, the handler ends there
\* with an error notice: it issues no further statement (none for a later
\* record, none again for the failed one), the step changes no table and the
\* wizard stays as it is; the rows written before stay stored.  A statement
\* of the batch is issued again only by a new press of Finish.
C13_BatchFailureAborts ==
    [][/\ \A t \in 1..MaxTasks :
             BatchThrew(t) =>
                /\ tasks'[t] = Idle
                /\ notices' \in ErrorNotices
                /\ Sites' = Sites /\ Experiments' = Experiments /\ Stacks' = Stacks
                /\ written' = written
                /\ modal' = modal /\ promise' = promise /\ batchDone' = batchDone
       /\ \A t \in 1..MaxTasks :
             (tasks[t].kind # "finish" /\ tasks'[t].kind = "finish") =>
                /\ modal.isOpen /\ modal.page.kind = "finish"
                /\ tasks'[t].k = 1 /\ tasks'[t].log = <<>>
       /\ \A w \in written' : Committed(w)']_vars

\* The batch of two records failed at the second record: the first record's
\* Experiment and Stack are stored, nothing of the second was written, no
\* handler is running and the Finish page is still open.
C13_Witness ==
    /\ confirmed /\ ~batchDone /\ ~HandlerRunning
    /\ notices \in ErrorNotices
    /\ modal.isOpen /\ modal.page.kind = "finish"
    /\ Len(exportData) = 2
    /\ WroteExpStack = {<<"Experiments", 1>>, <<"Stacks", 1>>}


\* C14 as stated: once a run is over and nothing is in flight, every record of
\* the batch has either both its Experiment and its Stack written or neither.
C14_RecordNeverPartial ==
    (pluginPc = "done" /\ Quiescent) =>
        \A i \in 1..Len(exportData) :
           <<"Experiments", exportData[i].position>> \in written
              <=> <<"Stacks", exportData[i].position>> \in written


\* The notices that carry the four counters.
CounterNotices(lines) == {l \in lines : l.text \in {"Experiments", "Stacks"}}

\* C15 as stated: whenever a Finish batch ends, by running to its end or by a
\* statement that throws, the notices shown then carry the counters of
\* inserted and updated Experiments and of inserted and updated Stacks.
C15_CountersReportedAtEnd ==
    [][\A t \in 1..MaxTasks :
          (tasks[t].kind = "finish" /\ tasks'[t].kind # "finish") =>
             {l.text : l \in CounterNotices(notices')} = {"Experiments", "Stacks"}]_vars


\* The depth stored for what the user typed into the Depth field.
DepthOf(text) == IF text = <<>> THEN NullNum ELSE DigitPrefixVal(text, 0)
\* No later record of the batch carries the same id in the given field.
LastWith(i, field) ==
    \A j \in (i + 1)..Len(exportData) : exportData[j][field] # exportData[i][field]

\* C16: a NewSite handler is started with the project, the location and the
\* depth the user supplied (null when the depth is absent); the step in which
\* its insert succeeds adds exactly one Site row, for the site of the page,
\* which was not stored before: (site, animal of the document, project,
\* location, depth), and changes no other row.  Once Finish was confirmed
\* every new site of the batch has its row, written by this run, and every
\* site row written by this run is one of a new site.  When the batch has run
\* to its end, the Experiment and the Stack of every record, of new and of
\* existing sites, are written and stored with the record's values.
C16_NewSiteRowsThenBatch ==
    [][/\ \A t \in 1..MaxTasks :
             (tasks[t].kind # "newsite" /\ tasks'[t].kind = "newsite") =>
                /\ modal.isOpen /\ modal.page.kind = "newsite"
                /\ tasks'[t].siteID = modal.page.siteID
                /\ \E input \in SiteInputs :
                      /\ input[1] # "" /\ input[2] # ""
                      /\ tasks'[t].project = input[1]
                      /\ tasks'[t].location = input[2]
                      /\ tasks'[t].depth = DepthOf(input[3])
       /\ Sites' # Sites =>
             \E t \in 1..MaxTasks :
                /\ tasks[t].kind = "newsite"
                /\ tasks[t].siteID \notin DOMAIN Sites
                /\ DOMAIN Sites' = DOMAIN Sites \cup {tasks[t].siteID}
                /\ \A s \in DOMAIN Sites : Sites'[s] = Sites[s]
                /\ Sites'[tasks[t].siteID] =
                      [AnimalID |-> AnimalID, Project |-> tasks[t].project,
                       Location |-> tasks[t].location, Depth |-> tasks[t].depth,
                       DataDeleted |-> FALSE]
                /\ written' = written \cup {<<"Sites", tasks[t].siteID>>}
       /\ confirmed' =>
             /\ \A s \in NewSites' : s \in DOMAIN Sites' /\ <<"Sites", s>> \in written'
             /\ \A s \in IDs : <<"Sites", s>> \in written' => s \in Range(modal'.missingSitesIDs)
       /\ batchDone' =>
             \A i \in 1..Len(exportData') :
                LET r == exportData'[i]
                IN /\ <<"Experiments", r.position>> \in written'
                   /\ <<"Stacks", r.position>> \in written'
                   /\ r.expID \in DOMAIN Experiments' /\ r.stackID \in DOMAIN Stacks'
                   /\ LastWith(i, "expID")' => Experiments'[r.expID] = [SiteID |-> r.siteID]
                   /\ LastWith(i, "stackID")' =>
                         /\ Stacks'[r.stackID].ExpID = r.expID
                         /\ Stacks'[r.stackID].Comment = r.comment]_vars

\* A batch of one record on an existing site and one on a new site ran to its
\* end; the new site was created with project P1, location L1 and no depth.
C16_Witness ==
    /\ batchDone /\ Len(exportData) = 2
    /\ Cardinality(NewSites) = 1 /\ Cardinality(BatchIDs("siteID")) = 2
    /\ \A s \in NewSites :
          /\ <<"Sites", s>> \in written
          /\ Sites[s] = [AnimalID |-> AnimalID, Project |-> "P1", Location |-> "L1",
                         Depth |-> NullNum, DataDeleted |-> FALSE]


\* C17 as stated: no exception of a storage call goes uncaught, and the wizard
\* is never open with nothing running and no step rendered.
C17_EveryThrowCaught ==
    /\ ~unhandled
    /\ (modal.isOpen /\ Quiescent) => modal.page # NoPage


\* The text has a header row that matches and, right after it, a separator
\* row the extractor accepts.
ValidSeparator ==
    LET h == headerMatch(content, getExpLogTableHeadersV2)
    IN /\ h # 0 /\ h + 1 <= Len(content)
       /\ separatorRegex(content[h + 1], getExpLogTableHeadersV2)

\* A pipe-delimited line: not blank, it starts and ends with a pipe.
PipeDelimited(line) == line # <<>> /\ Head(line) = Pipe /\ line[Len(line)] = Pipe

\* The lines of the text after the separator row, up to the first line that
\* is not pipe-delimited.
RECURSIVE RunFrom(_)
RunFrom(i) ==
    IF i > Len(content) \/ ~PipeDelimited(content[i]) THEN <<>>
    ELSE <<content[i]>> \o RunFrom(i + 1)
TableLines ==
    IF ValidSeparator THEN RunFrom(headerMatch(content, getExpLogTableHeadersV2) + 2)
    ELSE <<>>

Extracted == pluginPc # "command"

\* C18: once the table is extracted, the number of raw rows equals the number
\* of contiguous pipe-delimited lines that follow the valid separator row, up
\* to the first line that is not pipe-delimited.
C18_RowPerTableLine == Extracted => Len(tableData) = Len(TableLines)


\* The mapping of a data line, keyed by the header names in order, a cell the
\* line does not have being the empty string.
PaddedRow(line) ==
    LET cells == splitPipe(line)
        headers == getExpLogTableHeadersV2
    IN [h \in {headers[k] : k \in 1..Len(headers)} |->
          LET k == CHOOSE j \in 1..Len(headers) : headers[j] = h
          IN IF k <= Len(cells) - 2 THEN cells[k + 1] ELSE ""]

\* C19: once the table is extracted there is one mapping per data row, in the
\* order of the rows, with the cell of each header under the header's name; a
\* row with fewer cells than headers has the empty string for the missing
\* trailing cells.
C19_MappingPerDataRow ==
    Extracted =>
        tableData = TableOf([i \in 1..Len(TableLines) |-> PaddedRow(TableLines[i])])


\* A separator row of n columns: a pipe-delimited line of n cells of dashes.
SeparatorRow(line, n) ==
    /\ PipeDelimited(line)
    /\ Len(splitPipe(line)) - 2 = n
    /\ \A k \in 2..(Len(splitPipe(line)) - 1) : IsDashes(splitPipe(line)[k])

\* The text has a matching header row, and the line right after it is not a
\* separator row of as many columns as there are expected headers.
MismatchedSeparator ==
    LET h == headerMatch(content, getExpLogTableHeadersV2)
    IN /\ h # 0
       /\ \/ h + 1 > Len(content)
          \/ ~SeparatorRow(content[h + 1], Len(getExpLogTableHeadersV2))

\* The export command has ended with "No data to be exported.", the wizard
\* was never opened and nothing was written.
EndedAsNoData ==
    /\ pluginPc = "done"
    /\ notices = {Msg("No data to be exported.")[1]}
    /\ ~WizardOpened /\ ~modal.isOpen
    /\ written = {}

\* C20: when the line after the matched header row is not a separator row
\* with exactly the expected number of columns (it has fewer or more, or is
\* no separator row), the extractor returns no row and the export ends with
\* "No data to be exported." and without a write.
C20_MismatchedSeparatorNoData ==
    MismatchedSeparator =>
        /\ Extracted => tableData = <<>>
        /\ pluginPc \notin {"command", "start"} => EndedAsNoData


\* The records built from the rows of the table, the empty ones included.
Records == [i \in 1..Len(tableData) |-> ParseRow(tableData[i], i)]
RecordsBuilt == pluginPc \notin {"command", "start"}

\* No parsed field of the record is present.
AllAbsent(r) ==
    /\ r.logDateTime = NullDate
    /\ r.stackID = NullNum /\ r.expID = NullNum /\ r.siteID = NullNum
    /\ r.comment = "" /\ r.paradigm = ""

\* C21: a record is empty if and only if its timestamp, stackId, expId,
\* siteId, comment and paradigm are all absent, whatever its raw texts are.
C21_EmptyIffAllAbsent ==
    RecordsBuilt => \A i \in 1..Len(Records) : isEmpty(Records[i]) <=> AllAbsent(Records[i])


\* Some field of the record had a raw text that is not blank and did not
\* coerce: no timestamp came of the date or time text, or parseInt of an id
\* text is NaN.
FailedToCoerce(r) ==
    \/ r.origStringLogDate # "" /\ r.logDateTime = NullDate
    \/ r.origStringLogTime # "" /\ r.logDateTime = NullDate
    \/ r.origStringStackID # <<>> /\ parseInt(r.origStringStackID) = NullNum
    \/ r.origStringExpID # <<>> /\ parseInt(r.origStringExpID) = NullNum
    \/ r.origStringSiteID # <<>> /\ parseInt(r.origStringSiteID) = NullNum

\* C22: a record is invalid if and only if one of its date, time, stackId,
\* expId and siteId texts is not blank and failed to coerce; a record whose
\* id texts coerce, be it to 0, is not invalid.
C22_InvalidIffFailedToCoerce ==
    RecordsBuilt =>
        \A i \in 1..Len(Records) : isInvalid(Records[i]) <=> FailedToCoerce(Records[i])


\* The submission has a project and a location, and its depth text is blank
\* or a run of digits.
Acceptable(input) ==
    /\ input[1] # "" /\ input[2] # ""
    /\ input[3] = <<>> \/ \A i \in 1..Len(input[3]) : IsDigit(input[3][i])

SiteWarnings ==
    {Line("Please provide Project and Location!", <<>>),
     Line("Please provide valid integer for Depth!", <<>>)}

BatchSites == {exportData[i].siteID : i \in 1..Len(exportData)}

\* C24: the new-sites list validation computes holds exactly the site ids of
\* the batch that have no Sites row at the time of the query, a soft-deleted
\* row being a row, and holds each id once.
C24_NewSitesAreMissingSites ==
    [][("queryMissingSites" \notin returned /\ "queryMissingSites" \in returned') =>
          LET list == modal'.missingSitesIDs
          IN /\ Range(list) = {si \in BatchSites : si \notin DOMAIN Sites}
             /\ \A i, j \in 1..Len(list) : list[i] = list[j] => i = j]_vars

\* Validation has computed the list for a batch of two records: one on a site
\* with a soft-deleted row, which is not listed, one on a site without a row.
C24_Witness ==
    /\ "queryMissingSites" \in returned /\ written = {}
    /\ Len(exportData) = 2
    /\ \E si \in BatchSites :
          /\ si \in DOMAIN Sites /\ Sites[si].DataDeleted
          /\ si \notin Range(modal.missingSitesIDs)
    /\ \E si \in BatchSites : si \notin DOMAIN Sites /\ modal.missingSitesIDs = <<si>>


\* The cells of a table row, the ones between its first and last pipe.
CellsOf(line) == SubSeq(splitPipe(line), 2, Len(splitPipe(line)) - 1)

\* The cell of a row under the k-th header, blank when the row has no such cell.
CellAt(line, k) == IF k <= Len(CellsOf(line)) THEN CellsOf(line)[k] ELSE ""

\* The first line with the old header row, and the text lines of the data
\* rows of that table: the pipe-delimited lines after its separator row.
OldHeaderIndex ==
    CHOOSE i \in 1..Len(content) :
        /\ ContainsColumns(content[i], getExpLogTableHeaders)
        /\ \A j \in 1..(i - 1) : ~ContainsColumns(content[j], getExpLogTableHeaders)
OldTableRows ==
    {i \in (OldHeaderIndex + 2)..Len(content) :
        \A j \in (OldHeaderIndex + 2)..i : PipeDelimited(content[j])}

\* The position of a header in a header list, 0 when it is not in the list.
ColumnOf(headers, h) ==
    IF \E k \in 1..Len(headers) : headers[k] = h
    THEN CHOOSE k \in 1..Len(headers) : headers[k] = h ELSE 0

Migrates ==
    /\ pluginPc = "create"
    /\ ~matchingTableExist(content, getExpLogTableHeadersV2)
    /\ matchingTableExist(content, getExpLogTableHeaders)

\* C25: the migration of an old-schema table keeps, for every data row of the
\* table, each cell under its header: the adapted row has one cell per header
\* of the new schema, the cell of a header of the old schema holds the value
\* the row had under that header, and the cell of an inserted header is blank.
C25_MigrationKeepsCells ==
    [][Migrates =>
          \A i \in OldTableRows :
             /\ Len(CellsOf(content'[i])) = Len(getExpLogTableHeadersV2)
             /\ \A n \in 1..Len(getExpLogTableHeadersV2) :
                   LET k == ColumnOf(getExpLogTableHeaders, getExpLogTableHeadersV2[n])
                   IN CellAt(content'[i], n) =
                        (IF k = 0 THEN "" ELSE CellAt(content[i], k))]_vars


\* The write of the NewSite submission of handler t is carried out, without a
\* connection fault, for a site id that has a Sites row by now and with a
\* project of the Projects table.
WritesExistingSite(t) ==
    /\ tasks[t].kind = "newsite" /\ tasks'[t] # tasks[t]
    /\ tasks[t].siteID \in DOMAIN Sites /\ tasks[t].project \in Projects
    /\ faults' = faults

ParentsExist ==
    \A t \in 1..MaxTasks :
        tasks[t].kind = "finish" =>
            /\ tasks[t].pc \in {"updateExperiment", "insertExperiment"} =>
                  exportData[tasks[t].k].siteID \in DOMAIN Sites
            /\ tasks[t].pc \in {"updateStack", "insertStack"} =>
                  exportData[tasks[t].k].expID \in DOMAIN Experiments

\* C27: whenever the Finish batch issues a write of Experiments the Sites row
\* of the record's siteId exists, and whenever it issues a write of Stacks the
\* Experiments row of the record's expId exists, so that no write of the
\* batch can violate the foreign keys Stack -> Experiment -> Site.
C27_ParentsExistAtWrites == ParentsExist

\* The batch is about to insert the stack of a record whose site was created
\* by this run's NewSite step and whose experiment the batch has inserted.
C27_Witness ==
    \E t \in 1..MaxTasks :
        /\ tasks[t].kind = "finish" /\ tasks[t].pc = "insertStack"
        /\ <<"Sites", exportData[tasks[t].k].siteID>> \in written
        /\ <<"Experiments", exportData[tasks[t].k].position>> \in written
        /\ exportData[tasks[t].k].expID \in DOMAIN Experiments


\* The wizard run has ended with success: the result returned is null.
Succeeded == promise.resolved /\ promise.value = Null

\* Every stack, experiment and site id of the batch is stored and belongs,
\* through Stack -> Experiment -> Site -> Animal, to the animal of the document.
BatchOwned ==
    /\ \A si \in BatchIDs("siteID") : si \in DOMAIN Sites /\ OwnerOfSite(si) = AnimalID
    /\ \A e \in BatchIDs("expID") : e \in DOMAIN Experiments /\ OwnerOfExp(e) = AnimalID
    /\ \A st \in BatchIDs("stackID") : st \in DOMAIN Stacks /\ OwnerOfStack(st) = AnimalID

\* The step leaves every row that belongs to another animal as it is.
ForeignRowsKept ==
    /\ \A si \in DOMAIN Sites :
          OwnerOfSite(si) # AnimalID => si \in DOMAIN Sites' /\ Sites'[si] = Sites[si]
    /\ \A e \in DOMAIN Experiments :
          OwnerOfExp(e) # AnimalID =>
              e \in DOMAIN Experiments' /\ Experiments'[e] = Experiments[e]
    /\ \A st \in DOMAIN Stacks :
          OwnerOfStack(st) # AnimalID => st \in DOMAIN Stacks' /\ Stacks'[st] = Stacks[st]

\* C28: when a wizard run has ended with success, every stack, experiment and
\* site id of the batch is stored and belongs to the animal of the document,
\* and no step of the run has changed, removed or re-parented a row that
\* belongs to another animal.
C28_BatchOwnedAfterSuccess ==
    [][ForeignRowsKept /\ (Succeeded' => BatchOwned')]_vars

\* A run has ended with success on a store that holds rows of another animal:
\* it wrote a new site and updated a stored experiment of the batch.
C28_Witness ==
    /\ Succeeded /\ pluginPc = "done" /\ Len(exportData) = 2
    /\ \E si \in DOMAIN Sites : OwnerOfSite(si) # AnimalID
    /\ \E si \in BatchIDs("siteID") : <<"Sites", si>> \in written
    /\ lastReport # NoReport /\ lastReport.countUpdExp > 0


\* The export was refused with the notice of invalid data that names row i.
ReportedInvalid(i) ==
    /\ pluginPc = "done" /\ ~WizardOpened /\ written = {}
    /\ \E l \in notices : l.text = "There is invalid data!" /\ i \in Range(l.ids)

\* C29: every table row with a Date, Time, StackID, ExpID or SiteID text that
\* is not blank and fails to coerce is reported as invalid and blocks the
\* export; the empty-row filter never drops such a row, not even when no
\* field of it parses and its comment is blank.
C29_UncoercedRowBlocks ==
    RecordsBuilt =>
        \A i \in 1..Len(Records) : FailedToCoerce(Records[i]) => ReportedInvalid(i)


\* C30: within one wizard session at most one Finish batch is in progress at
\* any time, a further press of Finish while a batch is suspended at a write
\* starts no second batch, and each successful NewSite submission moves the
\* site index on by exactly one.
C30_OneBatchAtATime ==
    [][/\ Cardinality(FinishRunning') <= 1
       /\ Sites' # Sites => modal'.missingSiteIDsIndex = modal.missingSiteIDsIndex + 1]_vars

(***************************************************************************)
(* C31: the counters of the Finish batch.                                  *)
(***************************************************************************)
\* The positions of the records of a batch whose write to the table completed:
\* an UPDATE that affected a row, or an INSERT.
Completed(log, table) ==
    {log[i].position : i \in {j \in 1..Len(log) :
                                 log[j].table = table /\ log[j].count = 1}}

\* The ids of the batch, per entity, that the table did not hold when the batch
\* started.
NewExpIDs(before) == {exportData[i].expID : i \in 1..Len(exportData)} \ before.exps
NewStackIDs(before) == {exportData[i].stackID : i \in 1..Len(exportData)} \ before.stacks

\* The counters of a batch that ended agree with its n records and with the
\* stores before it.
CountersOfBatch(report) ==
    /\ report.countInsExp + report.countUpdExp = Len(exportData)
    /\ report.countInsStack + report.countUpdStack = Len(exportData)
    /\ report.countInsExp = Cardinality(NewExpIDs(report.before))
    /\ report.countInsStack = Cardinality(NewStackIDs(report.before))

\* C31: at every point of a Finish batch the Experiment counters add up to the
\* number of records whose Experiment write completed and the Stack counters to
\* the number whose Stack write completed; after a complete batch of n records
\* both sums are n and each insert counter is the number of distinct ids of the
\* entity in the batch that did not exist before the batch.
C31_CounterAccounting ==
    /\ \A t \in FinishRunning :
          /\ tasks[t].countInsExp + tasks[t].countUpdExp =
                Cardinality(Completed(tasks[t].log, "Experiments"))
          /\ tasks[t].countInsStack + tasks[t].countUpdStack =
                Cardinality(Completed(tasks[t].log, "Stacks"))
    /\ (lastReport # NoReport /\ lastReport.run = runs) => CountersOfBatch(lastReport)

\* A batch of two records with one Experiment ended: one Experiment inserted,
\* one updated, two Stacks written, one of which existed before.
C31_Witness ==
    /\ lastReport # NoReport /\ batchDone
    /\ Len(exportData) = 2
    /\ lastReport.countInsExp = 1 /\ lastReport.countUpdExp = 1
    /\ lastReport.countInsStack = 1 /\ lastReport.countUpdStack = 1

(***************************************************************************)
(* C32: what the Select button of QueryAnimalModal returns.                *)
(***************************************************************************)
\* The Select button closed the modal in this step.
SelectReturned ==
    SelectClicked /\ queryAnimalModal'.resolved

\* C32: the animal id QueryAnimalModal returns when Select is pressed is the
\* animal shown as selected in the Animal dropdown, and that dropdown lists the
\* animals of the PI shown as selected: never an animal chosen before the PI
\* was changed, nor one of a list that an earlier PI's query filled in late.
C32_SelectReturnsShownAnimal ==
    [][SelectReturned =>
          /\ queryAnimalModal'.value = queryAnimalModal.animalValue
          /\ queryAnimalModal.animalOptions = queryAnimals(queryAnimalModal.piValue)]_vars

(***************************************************************************)
(* C33: the password and overlapping saveSettings calls.                   *)
(***************************************************************************)
SavesFinished == \A c \in 1..MaxSaves : plugin.calls[c] = NoSave

\* No settings object passed to saveData held a password.
PasswordNeverSaved == plugin.saved \subseteq {""}

\* The password in memory and in the DB config is the one entered last.
LatestPasswordKept ==
    /\ plugin.dbPassword = plugin.entered
    /\ plugin.dbConfigPassword = plugin.entered

\* C33: with the keytar store loaded and a non-empty password, no call of
\* saveData receives a settings object that contains the password, however the
\* saveSettings calls of successive keystrokes overlap; and once all of them
\* have finished (none having thrown), the password in memory and in the DB
\* config is the most recently entered one.
C33_PasswordOnlyInMemory ==
    plugin.keytar =>
       /\ PasswordNeverSaved
       /\ (SavesFinished /\ ~plugin.threw /\ plugin.entered # "") => LatestPasswordKept

(***************************************************************************)
(* C34: a NewSite submission with a freshly typed project.                 *)
(***************************************************************************)
\* The write of handler t for its site returned without a connection fault.
SiteWriteReturned(t) == AddNewSite(t) /\ faults' = faults

\* The site of handler t got its row and the wizard moved past it.
SiteCreated(t) ==
    /\ tasks[t].siteID \notin DOMAIN Sites
    /\ tasks[t].siteID \in DOMAIN Sites'
    /\ Sites'[tasks[t].siteID].Project = tasks[t].project
    /\ modal'.missingSiteIDsIndex = modal.missingSiteIDsIndex + 1

\* C34: a NewSite submission with a non-empty location and a project, be it
\* selected from the existing projects or freshly typed, creates the site and
\* advances the wizard.
C34_TypedProjectCreatesSite ==
    [][\A t \in 1..MaxTasks : SiteWriteReturned(t) => SiteCreated(t)]_vars

(***************************************************************************)
(* C35: the wizard ends with success.                                      *)
(***************************************************************************)
\* The export ended without the success result: refused before the wizard, or
\* the wizard returned a message.
FailureOutcome ==
    \/ pluginPc = "done" /\ ~promise.resolved
    \/ promise.resolved /\ promise.value # Null

\* The user presses Next on a NewSite page with input the page accepts.
ValidSitePress ==
    \E t \in 1..MaxHandlers, input \in SiteInputs :
       /\ onNextNewSite(input[1], input[2], input[3]).ok
       /\ NewSiteNext(t, input)

FinishPress == \E t \in 1..MaxHandlers : FinishNext(t)

\* A write of a handler threw.
WriteFailed ==
    /\ \E t \in 1..MaxHandlers :
          AddNewSite(t) \/ UpdateExperiment(t) \/ InsertExperiment(t)
             \/ UpdateStack(t) \/ InsertStack(t)
    /\ notices' \in {Range(ConnectionError), Range(ConstraintError)}

\* The terminal state with the success result, after one successful insertion
\* per new site.
TerminalSuccess ==
    /\ promise.resolved /\ promise.value = Null
    /\ ~modal.isOpen /\ batchDone
    /\ Cardinality({w \in written : w[1] = "Sites"}) = Len(modal.missingSitesIDs)

\* C35: if the export is not refused by validation or cancelled, the user
\* supplies valid input at every NewSite step and confirms Finish, and writes
\* do not keep failing, the wizard eventually reaches the terminal state with
\* the success result, after as many successful site insertions as there are
\* new sites.
C35_EventuallySuccess ==
    (/\ []~FailureOutcome
     /\ WF_vars(ValidSitePress)
     /\ WF_vars(FinishPress)
     /\ <>[][~WriteFailed]_vars)
       => <>TerminalSuccess

(***************************************************************************)
(* C36: the lines adaptTable leaves alone.                                 *)
(***************************************************************************)
\* The lines of the matched table: its header row, its separator row and its
\* contiguous data rows.
MatchedTableLines == {OldHeaderIndex, OldHeaderIndex + 1} \cup OldTableRows

\* C36: adaptTable changes only lines of the matched table: the lines before
\* the header and the lines from the table's first non-table line on, rows of
\* a later table included, are as they were, and no line is added or removed.
C36_OnlyMatchedTableChanged ==
    [][(Migrates /\ CreateExpLogTable) =>
          /\ Len(content') = Len(content)
          /\ \A i \in (1..Len(content)) \ MatchedTableLines : content'[i] = content[i]]_vars

(***************************************************************************)
(* C37: createExpLogTable invoked again.                                   *)
(***************************************************************************)
AlreadyExists == Line("A table with matching headers already exists in this file.", <<>>)

\* C37: once createExpLogTable has run on a document (inserting a table of the
\* current schema or adapting an old-schema table), every further invocation
\* leaves the text of the document unchanged.
C37_CreateTableIdempotent ==
    [][CreateExpLogTableAgain => content' = content]_vars

\* A document without a table got its table by the first invocation, and a
\* further invocation found it.
C37_Witness ==
    /\ pluginPc = "command"
    /\ notices = {AlreadyExists}
    /\ content = insertTableIntoFile(<<TextLine>>,
                                     generateTableWithHeaders(getExpLogTableHeadersV2))

(***************************************************************************)
(* C38: the step counter and the site index of the wizard.                 *)
(***************************************************************************)
\* The step is 0, 1 or 2, the site index lies within the list of new sites,
\* and a NewSite page shows the site at an index below the length of the list.
StepAndIndexInRange(m) ==
    /\ m.currentStep \in {0, 1, 2}
    /\ 0 <= m.missingSiteIDsIndex
    /\ m.missingSiteIDsIndex <= Len(m.missingSitesIDs)
    /\ m.page.kind = "newsite" =>
          /\ m.page.index < Len(m.missingSitesIDs)
          /\ m.page.siteID = m.missingSitesIDs[m.page.index + 1]

\* C38: in every state of the wizard the current step is 0 (validating),
\* 1 (NewSite) or 2 (Finish), the site index is between 0 and the number of new
\* sites, a NewSite page is rendered only for an index below that number, and
\* no step of the wizard lowers the step counter.
C38_StepAndIndexBounds ==
    [][/\ StepAndIndexInRange(modal')
       /\ modal'.currentStep >= modal.currentStep]_vars

\* The page of the second of two new sites is shown, the first one added.
C38_Witness ==
    /\ modal.isOpen /\ modal.currentStep = 1
    /\ Len(modal.missingSitesIDs) = 2
    /\ modal.missingSiteIDsIndex = 1
    /\ modal.page = NewSitePage(modal.missingSitesIDs[2], 1)
    /\ <<"Sites", modal.missingSitesIDs[1]>> \in written

====
